---- MODULE Spec2Model ----
(***************************************************************************)
(* Model of the POB / Portal reconciliation wizard (src/app.py).           *)
(*                                                                         *)
(* Text is a sequence of one-character strings, so that stripping,         *)
(* lower-casing, digit search and numeric parsing are computed.            *)
(* A character that a TLA+ string cannot hold is written by its code       *)
(* point, as in "U+00A0" for the no-break space.                           *)
(* A cell value is a record [k, s, n, d]:                                  *)
(*   k = "str"     a Python str, text in s                                 *)
(*   k = "int"     a Python / numpy integer, value in n                    *)
(*   k = "float"   the float n / 10^d, n no multiple of 10 when d > 0;     *)
(*                 s = <<"-">> on the zero -0.0                            *)
(*   k = "bool"    True (n = 1) or False (n = 0)                           *)
(*   k = "inf"     the float infinity of sign n                            *)
(*   k = "nan"     the float NaN (a blank spreadsheet cell)                *)
(* and, in a stored workbook only,                                         *)
(*   k = "formula" a formula cell, its text in s                           *)
(*   k = "error"   an error cell such as #REF!, its text in s              *)
(* A column name is a string; its characters are taken with SubSeq.        *)
(***************************************************************************)
EXTENDS Integers, Sequences, FiniteSets, TLC

\* ------------------------------------------------------------------------
\* Text
\* ------------------------------------------------------------------------

DigitSeq == <<"0", "1", "2", "3", "4", "5", "6", "7", "8", "9">>

\* the ASCII digits: the only digits of a numeral
AsciiDigits == {DigitSeq[i] : i \in 1..Len(DigitSeq)}

\* the characters the pattern \d matches in a str: every Unicode decimal
\* digit (category Nd)
Digits ==
    AsciiDigits \cup
    {
      "U+0660", "U+0661", "U+0662", "U+0663", "U+0664", "U+0665", "U+0666",
      "U+0667", "U+0668", "U+0669", "U+06F0", "U+06F1", "U+06F2", "U+06F3",
      "U+06F4", "U+06F5", "U+06F6", "U+06F7", "U+06F8", "U+06F9", "U+07C0",
      "U+07C1", "U+07C2", "U+07C3", "U+07C4", "U+07C5", "U+07C6", "U+07C7",
      "U+07C8", "U+07C9", "U+0966", "U+0967", "U+0968", "U+0969", "U+096A",
      "U+096B", "U+096C", "U+096D", "U+096E", "U+096F", "U+09E6", "U+09E7",
      "U+09E8", "U+09E9", "U+09EA", "U+09EB", "U+09EC", "U+09ED", "U+09EE",
      "U+09EF", "U+0A66", "U+0A67", "U+0A68", "U+0A69", "U+0A6A", "U+0A6B",
      "U+0A6C", "U+0A6D", "U+0A6E", "U+0A6F", "U+0AE6", "U+0AE7", "U+0AE8",
      "U+0AE9", "U+0AEA", "U+0AEB", "U+0AEC", "U+0AED", "U+0AEE", "U+0AEF",
      "U+0B66", "U+0B67", "U+0B68", "U+0B69", "U+0B6A", "U+0B6B", "U+0B6C",
      "U+0B6D", "U+0B6E", "U+0B6F", "U+0BE6", "U+0BE7", "U+0BE8", "U+0BE9",
      "U+0BEA", "U+0BEB", "U+0BEC", "U+0BED", "U+0BEE", "U+0BEF", "U+0C66",
      "U+0C67", "U+0C68", "U+0C69", "U+0C6A", "U+0C6B", "U+0C6C", "U+0C6D",
      "U+0C6E", "U+0C6F", "U+0CE6", "U+0CE7", "U+0CE8", "U+0CE9", "U+0CEA",
      "U+0CEB", "U+0CEC", "U+0CED", "U+0CEE", "U+0CEF", "U+0D66", "U+0D67",
      "U+0D68", "U+0D69", "U+0D6A", "U+0D6B", "U+0D6C", "U+0D6D", "U+0D6E",
      "U+0D6F", "U+0DE6", "U+0DE7", "U+0DE8", "U+0DE9", "U+0DEA", "U+0DEB",
      "U+0DEC", "U+0DED", "U+0DEE", "U+0DEF", "U+0E50", "U+0E51", "U+0E52",
      "U+0E53", "U+0E54", "U+0E55", "U+0E56", "U+0E57", "U+0E58", "U+0E59",
      "U+0ED0", "U+0ED1", "U+0ED2", "U+0ED3", "U+0ED4", "U+0ED5", "U+0ED6",
      "U+0ED7", "U+0ED8", "U+0ED9", "U+0F20", "U+0F21", "U+0F22", "U+0F23",
      "U+0F24", "U+0F25", "U+0F26", "U+0F27", "U+0F28", "U+0F29", "U+1040",
      "U+1041", "U+1042", "U+1043", "U+1044", "U+1045", "U+1046", "U+1047",
      "U+1048", "U+1049", "U+1090", "U+1091", "U+1092", "U+1093", "U+1094",
      "U+1095", "U+1096", "U+1097", "U+1098", "U+1099", "U+17E0", "U+17E1",
      "U+17E2", "U+17E3", "U+17E4", "U+17E5", "U+17E6", "U+17E7", "U+17E8",
      "U+17E9", "U+1810", "U+1811", "U+1812", "U+1813", "U+1814", "U+1815",
      "U+1816", "U+1817", "U+1818", "U+1819", "U+1946", "U+1947", "U+1948",
      "U+1949", "U+194A", "U+194B", "U+194C", "U+194D", "U+194E", "U+194F",
      "U+19D0", "U+19D1", "U+19D2", "U+19D3", "U+19D4", "U+19D5", "U+19D6",
      "U+19D7", "U+19D8", "U+19D9", "U+1A80", "U+1A81", "U+1A82", "U+1A83",
      "U+1A84", "U+1A85", "U+1A86", "U+1A87", "U+1A88", "U+1A89", "U+1A90",
      "U+1A91", "U+1A92", "U+1A93", "U+1A94", "U+1A95", "U+1A96", "U+1A97",
      "U+1A98", "U+1A99", "U+1B50", "U+1B51", "U+1B52", "U+1B53", "U+1B54",
      "U+1B55", "U+1B56", "U+1B57", "U+1B58", "U+1B59", "U+1BB0", "U+1BB1",
      "U+1BB2", "U+1BB3", "U+1BB4", "U+1BB5", "U+1BB6", "U+1BB7", "U+1BB8",
      "U+1BB9", "U+1C40", "U+1C41", "U+1C42", "U+1C43", "U+1C44", "U+1C45",
      "U+1C46", "U+1C47", "U+1C48", "U+1C49", "U+1C50", "U+1C51", "U+1C52",
      "U+1C53", "U+1C54", "U+1C55", "U+1C56", "U+1C57", "U+1C58", "U+1C59",
      "U+A620", "U+A621", "U+A622", "U+A623", "U+A624", "U+A625", "U+A626",
      "U+A627", "U+A628", "U+A629", "U+A8D0", "U+A8D1", "U+A8D2", "U+A8D3",
      "U+A8D4", "U+A8D5", "U+A8D6", "U+A8D7", "U+A8D8", "U+A8D9", "U+A900",
      "U+A901", "U+A902", "U+A903", "U+A904", "U+A905", "U+A906", "U+A907",
      "U+A908", "U+A909", "U+A9D0", "U+A9D1", "U+A9D2", "U+A9D3", "U+A9D4",
      "U+A9D5", "U+A9D6", "U+A9D7", "U+A9D8", "U+A9D9", "U+A9F0", "U+A9F1",
      "U+A9F2", "U+A9F3", "U+A9F4", "U+A9F5", "U+A9F6", "U+A9F7", "U+A9F8",
      "U+A9F9", "U+AA50", "U+AA51", "U+AA52", "U+AA53", "U+AA54", "U+AA55",
      "U+AA56", "U+AA57", "U+AA58", "U+AA59", "U+ABF0", "U+ABF1", "U+ABF2",
      "U+ABF3", "U+ABF4", "U+ABF5", "U+ABF6", "U+ABF7", "U+ABF8", "U+ABF9",
      "U+FF10", "U+FF11", "U+FF12", "U+FF13", "U+FF14", "U+FF15", "U+FF16",
      "U+FF17", "U+FF18", "U+FF19", "U+104A0", "U+104A1", "U+104A2",
      "U+104A3", "U+104A4", "U+104A5", "U+104A6", "U+104A7", "U+104A8",
      "U+104A9", "U+10D30", "U+10D31", "U+10D32", "U+10D33", "U+10D34",
      "U+10D35", "U+10D36", "U+10D37", "U+10D38", "U+10D39", "U+11066",
      "U+11067", "U+11068", "U+11069", "U+1106A", "U+1106B", "U+1106C",
      "U+1106D", "U+1106E", "U+1106F", "U+110F0", "U+110F1", "U+110F2",
      "U+110F3", "U+110F4", "U+110F5", "U+110F6", "U+110F7", "U+110F8",
      "U+110F9", "U+11136", "U+11137", "U+11138", "U+11139", "U+1113A",
      "U+1113B", "U+1113C", "U+1113D", "U+1113E", "U+1113F", "U+111D0",
      "U+111D1", "U+111D2", "U+111D3", "U+111D4", "U+111D5", "U+111D6",
      "U+111D7", "U+111D8", "U+111D9", "U+112F0", "U+112F1", "U+112F2",
      "U+112F3", "U+112F4", "U+112F5", "U+112F6", "U+112F7", "U+112F8",
      "U+112F9", "U+11450", "U+11451", "U+11452", "U+11453", "U+11454",
      "U+11455", "U+11456", "U+11457", "U+11458", "U+11459", "U+114D0",
      "U+114D1", "U+114D2", "U+114D3", "U+114D4", "U+114D5", "U+114D6",
      "U+114D7", "U+114D8", "U+114D9", "U+11650", "U+11651", "U+11652",
      "U+11653", "U+11654", "U+11655", "U+11656", "U+11657", "U+11658",
      "U+11659", "U+116C0", "U+116C1", "U+116C2", "U+116C3", "U+116C4",
      "U+116C5", "U+116C6", "U+116C7", "U+116C8", "U+116C9", "U+11730",
      "U+11731", "U+11732", "U+11733", "U+11734", "U+11735", "U+11736",
      "U+11737", "U+11738", "U+11739", "U+118E0", "U+118E1", "U+118E2",
      "U+118E3", "U+118E4", "U+118E5", "U+118E6", "U+118E7", "U+118E8",
      "U+118E9", "U+11950", "U+11951", "U+11952", "U+11953", "U+11954",
      "U+11955", "U+11956", "U+11957", "U+11958", "U+11959", "U+11C50",
      "U+11C51", "U+11C52", "U+11C53", "U+11C54", "U+11C55", "U+11C56",
      "U+11C57", "U+11C58", "U+11C59", "U+11D50", "U+11D51", "U+11D52",
      "U+11D53", "U+11D54", "U+11D55", "U+11D56", "U+11D57", "U+11D58",
      "U+11D59", "U+11DA0", "U+11DA1", "U+11DA2", "U+11DA3", "U+11DA4",
      "U+11DA5", "U+11DA6", "U+11DA7", "U+11DA8", "U+11DA9", "U+16A60",
      "U+16A61", "U+16A62", "U+16A63", "U+16A64", "U+16A65", "U+16A66",
      "U+16A67", "U+16A68", "U+16A69", "U+16AC0", "U+16AC1", "U+16AC2",
      "U+16AC3", "U+16AC4", "U+16AC5", "U+16AC6", "U+16AC7", "U+16AC8",
      "U+16AC9", "U+16B50", "U+16B51", "U+16B52", "U+16B53", "U+16B54",
      "U+16B55", "U+16B56", "U+16B57", "U+16B58", "U+16B59", "U+1D7CE",
      "U+1D7CF", "U+1D7D0", "U+1D7D1", "U+1D7D2", "U+1D7D3", "U+1D7D4",
      "U+1D7D5", "U+1D7D6", "U+1D7D7", "U+1D7D8", "U+1D7D9", "U+1D7DA",
      "U+1D7DB", "U+1D7DC", "U+1D7DD", "U+1D7DE", "U+1D7DF", "U+1D7E0",
      "U+1D7E1", "U+1D7E2", "U+1D7E3", "U+1D7E4", "U+1D7E5", "U+1D7E6",
      "U+1D7E7", "U+1D7E8", "U+1D7E9", "U+1D7EA", "U+1D7EB", "U+1D7EC",
      "U+1D7ED", "U+1D7EE", "U+1D7EF", "U+1D7F0", "U+1D7F1", "U+1D7F2",
      "U+1D7F3", "U+1D7F4", "U+1D7F5", "U+1D7F6", "U+1D7F7", "U+1D7F8",
      "U+1D7F9", "U+1D7FA", "U+1D7FB", "U+1D7FC", "U+1D7FD", "U+1D7FE",
      "U+1D7FF", "U+1E140", "U+1E141", "U+1E142", "U+1E143", "U+1E144",
      "U+1E145", "U+1E146", "U+1E147", "U+1E148", "U+1E149", "U+1E2F0",
      "U+1E2F1", "U+1E2F2", "U+1E2F3", "U+1E2F4", "U+1E2F5", "U+1E2F6",
      "U+1E2F7", "U+1E2F8", "U+1E2F9", "U+1E950", "U+1E951", "U+1E952",
      "U+1E953", "U+1E954", "U+1E955", "U+1E956", "U+1E957", "U+1E958",
      "U+1E959", "U+1FBF0", "U+1FBF1", "U+1FBF2", "U+1FBF3", "U+1FBF4",
      "U+1FBF5", "U+1FBF6", "U+1FBF7", "U+1FBF8", "U+1FBF9"
    }

\* the characters str.strip() removes (str.isspace)
Whitespace ==
    { " ", "\t", "\n", "\r", "\f", "U+000B",
      "U+001C", "U+001D", "U+001E", "U+001F", "U+0085", "U+00A0", "U+1680",
      "U+2000", "U+2001", "U+2002", "U+2003", "U+2004", "U+2005", "U+2006",
      "U+2007", "U+2008", "U+2009", "U+200A", "U+2028", "U+2029", "U+202F",
      "U+205F", "U+3000" }

\* the characters the numeric parser skips around a numeral (C isspace)
AsciiWhitespace == { " ", "\t", "\n", "U+000B", "\f", "\r" }

UpperSeq == <<"A", "B", "C", "D", "E", "F", "G", "H", "I", "J", "K", "L", "M",
              "N", "O", "P", "Q", "R", "S", "T", "U", "V", "W", "X", "Y", "Z">>

LowerSeq == <<"a", "b", "c", "d", "e", "f", "g", "h", "i", "j", "k", "l", "m",
              "n", "o", "p", "q", "r", "s", "t", "u", "v", "w", "x", "y", "z">>

max(a, b) == IF a >= b THEN a ELSE b

\* t without its leading characters of chars
RECURSIVE lstrip_of(_, _)
lstrip_of(t, chars) ==
    IF t # <<>> /\ Head(t) \in chars THEN lstrip_of(Tail(t), chars) ELSE t

\* t without its trailing characters of chars
RECURSIVE rstrip_of(_, _)
rstrip_of(t, chars) ==
    IF t # <<>> /\ t[Len(t)] \in chars
    THEN rstrip_of(SubSeq(t, 1, Len(t) - 1), chars)
    ELSE t

lstrip(t) == lstrip_of(t, Whitespace)

rstrip(t) == rstrip_of(t, Whitespace)

\* str.strip(): leading and trailing whitespace removed
strip(t) == rstrip(lstrip(t))

HexSeq == <<"0", "1", "2", "3", "4", "5", "6", "7", "8", "9",
            "A", "B", "C", "D", "E", "F">>

RECURSIVE hex(_)
hex(n) == IF n < 16 THEN HexSeq[n + 1] ELSE hex(n \div 16) \o HexSeq[(n % 16) + 1]

\* the character of code point n, for a code point written by its number
chr(n) ==
    (IF n < 16 THEN "U+000" ELSE IF n < 256 THEN "U+00" ELSE IF n < 4096 THEN "U+0" ELSE "U+")
    \o hex(n)

\* the characters of the code points of the ranges rs
chars_of(rs) == UNION { {chr(n) : n \in rs[i][1]..rs[i][2]} : i \in 1..Len(rs) }

\* str.lower() of one character beyond ASCII, as runs <<first, last, step,
\* delta>>: the code points first, first + step, ..., last are moved by delta
LowerRuns ==
    <<
       <<192, 214, 1, 32>>, <<216, 222, 1, 32>>, <<256, 302, 2, 1>>,
       <<306, 310, 2, 1>>, <<313, 327, 2, 1>>, <<330, 374, 2, 1>>,
       <<376, 376, 1, -121>>, <<377, 381, 2, 1>>, <<385, 385, 1, 210>>,
       <<386, 388, 2, 1>>, <<390, 390, 1, 206>>, <<391, 391, 1, 1>>,
       <<393, 394, 1, 205>>, <<395, 395, 1, 1>>, <<398, 398, 1, 79>>,
       <<399, 399, 1, 202>>, <<400, 400, 1, 203>>, <<401, 401, 1, 1>>,
       <<403, 403, 1, 205>>, <<404, 404, 1, 207>>, <<406, 406, 1, 211>>,
       <<407, 407, 1, 209>>, <<408, 408, 1, 1>>, <<412, 412, 1, 211>>,
       <<413, 413, 1, 213>>, <<415, 415, 1, 214>>, <<416, 420, 2, 1>>,
       <<422, 422, 1, 218>>, <<423, 423, 1, 1>>, <<425, 425, 1, 218>>,
       <<428, 428, 1, 1>>, <<430, 430, 1, 218>>, <<431, 431, 1, 1>>,
       <<433, 434, 1, 217>>, <<435, 437, 2, 1>>, <<439, 439, 1, 219>>,
       <<440, 440, 1, 1>>, <<444, 444, 1, 1>>, <<452, 452, 1, 2>>,
       <<453, 453, 1, 1>>, <<455, 455, 1, 2>>, <<456, 456, 1, 1>>,
       <<458, 458, 1, 2>>, <<459, 475, 2, 1>>, <<478, 494, 2, 1>>,
       <<497, 497, 1, 2>>, <<498, 500, 2, 1>>, <<502, 502, 1, -97>>,
       <<503, 503, 1, -56>>, <<504, 542, 2, 1>>, <<544, 544, 1, -130>>,
       <<546, 562, 2, 1>>, <<570, 570, 1, 10795>>, <<571, 571, 1, 1>>,
       <<573, 573, 1, -163>>, <<574, 574, 1, 10792>>,
       <<577, 577, 1, 1>>, <<579, 579, 1, -195>>, <<580, 580, 1, 69>>,
       <<581, 581, 1, 71>>, <<582, 590, 2, 1>>, <<880, 882, 2, 1>>,
       <<886, 886, 1, 1>>, <<895, 895, 1, 116>>, <<902, 902, 1, 38>>,
       <<904, 906, 1, 37>>, <<908, 908, 1, 64>>, <<910, 911, 1, 63>>,
       <<913, 929, 1, 32>>, <<931, 939, 1, 32>>, <<975, 975, 1, 8>>,
       <<984, 1006, 2, 1>>, <<1012, 1012, 1, -60>>,
       <<1015, 1015, 1, 1>>, <<1017, 1017, 1, -7>>,
       <<1018, 1018, 1, 1>>, <<1021, 1023, 1, -130>>,
       <<1024, 1039, 1, 80>>, <<1040, 1071, 1, 32>>,
       <<1120, 1152, 2, 1>>, <<1162, 1214, 2, 1>>,
       <<1216, 1216, 1, 15>>, <<1217, 1229, 2, 1>>,
       <<1232, 1326, 2, 1>>, <<1329, 1366, 1, 48>>,
       <<4256, 4293, 1, 7264>>, <<4295, 4295, 1, 7264>>,
       <<4301, 4301, 1, 7264>>, <<5024, 5103, 1, 38864>>,
       <<5104, 5109, 1, 8>>, <<7312, 7354, 1, -3008>>,
       <<7357, 7359, 1, -3008>>, <<7680, 7828, 2, 1>>,
       <<7838, 7838, 1, -7615>>, <<7840, 7934, 2, 1>>,
       <<7944, 7951, 1, -8>>, <<7960, 7965, 1, -8>>,
       <<7976, 7983, 1, -8>>, <<7992, 7999, 1, -8>>,
       <<8008, 8013, 1, -8>>, <<8025, 8031, 2, -8>>,
       <<8040, 8047, 1, -8>>, <<8072, 8079, 1, -8>>,
       <<8088, 8095, 1, -8>>, <<8104, 8111, 1, -8>>,
       <<8120, 8121, 1, -8>>, <<8122, 8123, 1, -74>>,
       <<8124, 8124, 1, -9>>, <<8136, 8139, 1, -86>>,
       <<8140, 8140, 1, -9>>, <<8152, 8153, 1, -8>>,
       <<8154, 8155, 1, -100>>, <<8168, 8169, 1, -8>>,
       <<8170, 8171, 1, -112>>, <<8172, 8172, 1, -7>>,
       <<8184, 8185, 1, -128>>, <<8186, 8187, 1, -126>>,
       <<8188, 8188, 1, -9>>, <<8486, 8486, 1, -7517>>,
       <<8491, 8491, 1, -8262>>, <<8498, 8498, 1, 28>>,
       <<8544, 8559, 1, 16>>, <<8579, 8579, 1, 1>>,
       <<9398, 9423, 1, 26>>, <<11264, 11311, 1, 48>>,
       <<11360, 11360, 1, 1>>, <<11362, 11362, 1, -10743>>,
       <<11363, 11363, 1, -3814>>, <<11364, 11364, 1, -10727>>,
       <<11367, 11371, 2, 1>>, <<11373, 11373, 1, -10780>>,
       <<11374, 11374, 1, -10749>>, <<11375, 11375, 1, -10783>>,
       <<11376, 11376, 1, -10782>>, <<11378, 11378, 1, 1>>,
       <<11381, 11381, 1, 1>>, <<11390, 11391, 1, -10815>>,
       <<11392, 11490, 2, 1>>, <<11499, 11501, 2, 1>>,
       <<11506, 11506, 1, 1>>, <<42560, 42604, 2, 1>>,
       <<42624, 42650, 2, 1>>, <<42786, 42798, 2, 1>>,
       <<42802, 42862, 2, 1>>, <<42873, 42875, 2, 1>>,
       <<42877, 42877, 1, -35332>>, <<42878, 42886, 2, 1>>,
       <<42891, 42891, 1, 1>>, <<42893, 42893, 1, -42280>>,
       <<42896, 42898, 2, 1>>, <<42902, 42920, 2, 1>>,
       <<42922, 42922, 1, -42308>>, <<42923, 42923, 1, -42319>>,
       <<42924, 42924, 1, -42315>>, <<42925, 42925, 1, -42305>>,
       <<42926, 42926, 1, -42308>>, <<42928, 42928, 1, -42258>>,
       <<42929, 42929, 1, -42282>>, <<42930, 42930, 1, -42261>>,
       <<42931, 42931, 1, 928>>, <<42932, 42946, 2, 1>>,
       <<42948, 42948, 1, -48>>, <<42949, 42949, 1, -42307>>,
       <<42950, 42950, 1, -35384>>, <<42951, 42953, 2, 1>>,
       <<42960, 42960, 1, 1>>, <<42966, 42968, 2, 1>>,
       <<42997, 42997, 1, 1>>, <<65313, 65338, 1, 32>>,
       <<66560, 66599, 1, 40>>, <<66736, 66771, 1, 40>>,
       <<66928, 66938, 1, 39>>, <<66940, 66954, 1, 39>>,
       <<66956, 66962, 1, 39>>, <<66964, 66965, 1, 39>>,
       <<68736, 68786, 1, 64>>, <<71840, 71871, 1, 32>>,
       <<93760, 93791, 1, 32>>, <<125184, 125217, 1, 34>>
    >>

\* the pairs <<character, its lower case>> of the run r
run_pairs(r) ==
    { <<chr(r[1] + k * r[3]), chr(r[1] + k * r[3] + r[4])>> :
        k \in 0..((r[2] - r[1]) \div r[3]) }

lower_pairs == UNION { run_pairs(LowerRuns[i]) : i \in 1..Len(LowerRuns) }

\* the lower case of the characters beyond ASCII that have one: the Kelvin
\* sign becomes k, the dotted capital I becomes i and a combining dot
lower_of ==
    [c \in {p[1] : p \in lower_pairs} \cup {"U+212A", "U+0130"} |->
        CASE c = "U+212A" -> <<"k">>
          [] c = "U+0130" -> <<"i", "U+0307">>
          [] OTHER -> <<(CHOOSE p \in lower_pairs : p[1] = c)[2]>>]

\* the cased characters that are not case-ignorable
CasedLetters ==
    {UpperSeq[i] : i \in 1..Len(UpperSeq)} \cup {LowerSeq[i] : i \in 1..Len(LowerSeq)}
    \cup chars_of(<<
       <<170, 170>>, <<181, 181>>, <<186, 186>>, <<192, 214>>,
       <<216, 246>>, <<248, 442>>, <<444, 447>>, <<452, 659>>,
       <<661, 687>>, <<880, 883>>, <<886, 887>>, <<891, 893>>,
       <<895, 895>>, <<902, 902>>, <<904, 906>>, <<908, 908>>,
       <<910, 929>>, <<931, 1013>>, <<1015, 1153>>, <<1162, 1327>>,
       <<1329, 1366>>, <<1376, 1416>>, <<4256, 4293>>, <<4295, 4295>>,
       <<4301, 4301>>, <<4304, 4346>>, <<4349, 4351>>, <<5024, 5109>>,
       <<5112, 5117>>, <<7296, 7304>>, <<7312, 7354>>, <<7357, 7359>>,
       <<7424, 7467>>, <<7531, 7543>>, <<7545, 7578>>, <<7680, 7957>>,
       <<7960, 7965>>, <<7968, 8005>>, <<8008, 8013>>, <<8016, 8023>>,
       <<8025, 8025>>, <<8027, 8027>>, <<8029, 8029>>, <<8031, 8061>>,
       <<8064, 8116>>, <<8118, 8124>>, <<8126, 8126>>, <<8130, 8132>>,
       <<8134, 8140>>, <<8144, 8147>>, <<8150, 8155>>, <<8160, 8172>>,
       <<8178, 8180>>, <<8182, 8188>>, <<8450, 8450>>, <<8455, 8455>>,
       <<8458, 8467>>, <<8469, 8469>>, <<8473, 8477>>, <<8484, 8484>>,
       <<8486, 8486>>, <<8488, 8488>>, <<8490, 8493>>, <<8495, 8500>>,
       <<8505, 8505>>, <<8508, 8511>>, <<8517, 8521>>, <<8526, 8526>>,
       <<8544, 8575>>, <<8579, 8580>>, <<9398, 9449>>, <<11264, 11387>>,
       <<11390, 11492>>, <<11499, 11502>>, <<11506, 11507>>,
       <<11520, 11557>>, <<11559, 11559>>, <<11565, 11565>>,
       <<42560, 42605>>, <<42624, 42651>>, <<42786, 42863>>,
       <<42865, 42887>>, <<42891, 42894>>, <<42896, 42954>>,
       <<42960, 42961>>, <<42963, 42963>>, <<42965, 42969>>,
       <<42997, 42998>>, <<43002, 43002>>, <<43824, 43866>>,
       <<43872, 43880>>, <<43888, 43967>>, <<64256, 64262>>,
       <<64275, 64279>>, <<65313, 65338>>, <<65345, 65370>>,
       <<66560, 66639>>, <<66736, 66771>>, <<66776, 66811>>,
       <<66928, 66938>>, <<66940, 66954>>, <<66956, 66962>>,
       <<66964, 66965>>, <<66967, 66977>>, <<66979, 66993>>,
       <<66995, 67001>>, <<67003, 67004>>, <<68736, 68786>>,
       <<68800, 68850>>, <<71840, 71903>>, <<93760, 93823>>,
       <<119808, 119892>>, <<119894, 119964>>, <<119966, 119967>>,
       <<119970, 119970>>, <<119973, 119974>>, <<119977, 119980>>,
       <<119982, 119993>>, <<119995, 119995>>, <<119997, 120003>>,
       <<120005, 120069>>, <<120071, 120074>>, <<120077, 120084>>,
       <<120086, 120092>>, <<120094, 120121>>, <<120123, 120126>>,
       <<120128, 120132>>, <<120134, 120134>>, <<120138, 120144>>,
       <<120146, 120485>>, <<120488, 120512>>, <<120514, 120538>>,
       <<120540, 120570>>, <<120572, 120596>>, <<120598, 120628>>,
       <<120630, 120654>>, <<120656, 120686>>, <<120688, 120712>>,
       <<120714, 120744>>, <<120746, 120770>>, <<120772, 120779>>,
       <<122624, 122633>>, <<122635, 122654>>, <<125184, 125251>>,
       <<127280, 127305>>, <<127312, 127337>>, <<127344, 127369>>
    >>)

\* the case-ignorable characters (U+0060 is the grave accent)
CaseIgnorable ==
    {"'", ".", ":", "^", "U+0060"}
    \cup chars_of(<<
       <<168, 168>>, <<173, 173>>, <<175, 175>>, <<180, 180>>,
       <<183, 184>>, <<688, 879>>, <<884, 885>>, <<890, 890>>,
       <<900, 901>>, <<903, 903>>, <<1155, 1161>>, <<1369, 1369>>,
       <<1375, 1375>>, <<1425, 1469>>, <<1471, 1471>>, <<1473, 1474>>,
       <<1476, 1477>>, <<1479, 1479>>, <<1524, 1524>>, <<1536, 1541>>,
       <<1552, 1562>>, <<1564, 1564>>, <<1600, 1600>>, <<1611, 1631>>,
       <<1648, 1648>>, <<1750, 1757>>, <<1759, 1768>>, <<1770, 1773>>,
       <<1807, 1807>>, <<1809, 1809>>, <<1840, 1866>>, <<1958, 1968>>,
       <<2027, 2037>>, <<2042, 2042>>, <<2045, 2045>>, <<2070, 2093>>,
       <<2137, 2139>>, <<2184, 2184>>, <<2192, 2193>>, <<2200, 2207>>,
       <<2249, 2306>>, <<2362, 2362>>, <<2364, 2364>>, <<2369, 2376>>,
       <<2381, 2381>>, <<2385, 2391>>, <<2402, 2403>>, <<2417, 2417>>,
       <<2433, 2433>>, <<2492, 2492>>, <<2497, 2500>>, <<2509, 2509>>,
       <<2530, 2531>>, <<2558, 2558>>, <<2561, 2562>>, <<2620, 2620>>,
       <<2625, 2626>>, <<2631, 2632>>, <<2635, 2637>>, <<2641, 2641>>,
       <<2672, 2673>>, <<2677, 2677>>, <<2689, 2690>>, <<2748, 2748>>,
       <<2753, 2757>>, <<2759, 2760>>, <<2765, 2765>>, <<2786, 2787>>,
       <<2810, 2815>>, <<2817, 2817>>, <<2876, 2876>>, <<2879, 2879>>,
       <<2881, 2884>>, <<2893, 2893>>, <<2901, 2902>>, <<2914, 2915>>,
       <<2946, 2946>>, <<3008, 3008>>, <<3021, 3021>>, <<3072, 3072>>,
       <<3076, 3076>>, <<3132, 3132>>, <<3134, 3136>>, <<3142, 3144>>,
       <<3146, 3149>>, <<3157, 3158>>, <<3170, 3171>>, <<3201, 3201>>,
       <<3260, 3260>>, <<3263, 3263>>, <<3270, 3270>>, <<3276, 3277>>,
       <<3298, 3299>>, <<3328, 3329>>, <<3387, 3388>>, <<3393, 3396>>,
       <<3405, 3405>>, <<3426, 3427>>, <<3457, 3457>>, <<3530, 3530>>,
       <<3538, 3540>>, <<3542, 3542>>, <<3633, 3633>>, <<3636, 3642>>,
       <<3654, 3662>>, <<3761, 3761>>, <<3764, 3772>>, <<3782, 3782>>,
       <<3784, 3789>>, <<3864, 3865>>, <<3893, 3893>>, <<3895, 3895>>,
       <<3897, 3897>>, <<3953, 3966>>, <<3968, 3972>>, <<3974, 3975>>,
       <<3981, 3991>>, <<3993, 4028>>, <<4038, 4038>>, <<4141, 4144>>,
       <<4146, 4151>>, <<4153, 4154>>, <<4157, 4158>>, <<4184, 4185>>,
       <<4190, 4192>>, <<4209, 4212>>, <<4226, 4226>>, <<4229, 4230>>,
       <<4237, 4237>>, <<4253, 4253>>, <<4348, 4348>>, <<4957, 4959>>,
       <<5906, 5908>>, <<5938, 5939>>, <<5970, 5971>>, <<6002, 6003>>,
       <<6068, 6069>>, <<6071, 6077>>, <<6086, 6086>>, <<6089, 6099>>,
       <<6103, 6103>>, <<6109, 6109>>, <<6155, 6159>>, <<6211, 6211>>,
       <<6277, 6278>>, <<6313, 6313>>, <<6432, 6434>>, <<6439, 6440>>,
       <<6450, 6450>>, <<6457, 6459>>, <<6679, 6680>>, <<6683, 6683>>,
       <<6742, 6742>>, <<6744, 6750>>, <<6752, 6752>>, <<6754, 6754>>,
       <<6757, 6764>>, <<6771, 6780>>, <<6783, 6783>>, <<6823, 6823>>,
       <<6832, 6862>>, <<6912, 6915>>, <<6964, 6964>>, <<6966, 6970>>,
       <<6972, 6972>>, <<6978, 6978>>, <<7019, 7027>>, <<7040, 7041>>,
       <<7074, 7077>>, <<7080, 7081>>, <<7083, 7085>>, <<7142, 7142>>,
       <<7144, 7145>>, <<7149, 7149>>, <<7151, 7153>>, <<7212, 7219>>,
       <<7222, 7223>>, <<7288, 7293>>, <<7376, 7378>>, <<7380, 7392>>,
       <<7394, 7400>>, <<7405, 7405>>, <<7412, 7412>>, <<7416, 7417>>,
       <<7468, 7530>>, <<7544, 7544>>, <<7579, 7679>>, <<8125, 8125>>,
       <<8127, 8129>>, <<8141, 8143>>, <<8157, 8159>>, <<8173, 8175>>,
       <<8189, 8190>>, <<8203, 8207>>, <<8216, 8217>>, <<8228, 8228>>,
       <<8231, 8231>>, <<8234, 8238>>, <<8288, 8292>>, <<8294, 8303>>,
       <<8305, 8305>>, <<8319, 8319>>, <<8336, 8348>>, <<8400, 8432>>,
       <<11388, 11389>>, <<11503, 11505>>, <<11631, 11631>>,
       <<11647, 11647>>, <<11744, 11775>>, <<11823, 11823>>,
       <<12293, 12293>>, <<12330, 12333>>, <<12337, 12341>>,
       <<12347, 12347>>, <<12441, 12446>>, <<12540, 12542>>,
       <<40981, 40981>>, <<42232, 42237>>, <<42508, 42508>>,
       <<42607, 42610>>, <<42612, 42621>>, <<42623, 42623>>,
       <<42652, 42655>>, <<42736, 42737>>, <<42752, 42785>>,
       <<42864, 42864>>, <<42888, 42890>>, <<42994, 42996>>,
       <<43000, 43001>>, <<43010, 43010>>, <<43014, 43014>>,
       <<43019, 43019>>, <<43045, 43046>>, <<43052, 43052>>,
       <<43204, 43205>>, <<43232, 43249>>, <<43263, 43263>>,
       <<43302, 43309>>, <<43335, 43345>>, <<43392, 43394>>,
       <<43443, 43443>>, <<43446, 43449>>, <<43452, 43453>>,
       <<43471, 43471>>, <<43493, 43494>>, <<43561, 43566>>,
       <<43569, 43570>>, <<43573, 43574>>, <<43587, 43587>>,
       <<43596, 43596>>, <<43632, 43632>>, <<43644, 43644>>,
       <<43696, 43696>>, <<43698, 43700>>, <<43703, 43704>>,
       <<43710, 43711>>, <<43713, 43713>>, <<43741, 43741>>,
       <<43756, 43757>>, <<43763, 43764>>, <<43766, 43766>>,
       <<43867, 43871>>, <<43881, 43883>>, <<44005, 44005>>,
       <<44008, 44008>>, <<44013, 44013>>, <<64286, 64286>>,
       <<64434, 64450>>, <<65024, 65039>>, <<65043, 65043>>,
       <<65056, 65071>>, <<65106, 65106>>, <<65109, 65109>>,
       <<65279, 65279>>, <<65287, 65287>>, <<65294, 65294>>,
       <<65306, 65306>>, <<65342, 65342>>, <<65344, 65344>>,
       <<65392, 65392>>, <<65438, 65439>>, <<65507, 65507>>,
       <<65529, 65531>>, <<66045, 66045>>, <<66272, 66272>>,
       <<66422, 66426>>, <<67456, 67461>>, <<67463, 67504>>,
       <<67506, 67514>>, <<68097, 68099>>, <<68101, 68102>>,
       <<68108, 68111>>, <<68152, 68154>>, <<68159, 68159>>,
       <<68325, 68326>>, <<68900, 68903>>, <<69291, 69292>>,
       <<69446, 69456>>, <<69506, 69509>>, <<69633, 69633>>,
       <<69688, 69702>>, <<69744, 69744>>, <<69747, 69748>>,
       <<69759, 69761>>, <<69811, 69814>>, <<69817, 69818>>,
       <<69821, 69821>>, <<69826, 69826>>, <<69837, 69837>>,
       <<69888, 69890>>, <<69927, 69931>>, <<69933, 69940>>,
       <<70003, 70003>>, <<70016, 70017>>, <<70070, 70078>>,
       <<70089, 70092>>, <<70095, 70095>>, <<70191, 70193>>,
       <<70196, 70196>>, <<70198, 70199>>, <<70206, 70206>>,
       <<70367, 70367>>, <<70371, 70378>>, <<70400, 70401>>,
       <<70459, 70460>>, <<70464, 70464>>, <<70502, 70508>>,
       <<70512, 70516>>, <<70712, 70719>>, <<70722, 70724>>,
       <<70726, 70726>>, <<70750, 70750>>, <<70835, 70840>>,
       <<70842, 70842>>, <<70847, 70848>>, <<70850, 70851>>,
       <<71090, 71093>>, <<71100, 71101>>, <<71103, 71104>>,
       <<71132, 71133>>, <<71219, 71226>>, <<71229, 71229>>,
       <<71231, 71232>>, <<71339, 71339>>, <<71341, 71341>>,
       <<71344, 71349>>, <<71351, 71351>>, <<71453, 71455>>,
       <<71458, 71461>>, <<71463, 71467>>, <<71727, 71735>>,
       <<71737, 71738>>, <<71995, 71996>>, <<71998, 71998>>,
       <<72003, 72003>>, <<72148, 72151>>, <<72154, 72155>>,
       <<72160, 72160>>, <<72193, 72202>>, <<72243, 72248>>,
       <<72251, 72254>>, <<72263, 72263>>, <<72273, 72278>>,
       <<72281, 72283>>, <<72330, 72342>>, <<72344, 72345>>,
       <<72752, 72758>>, <<72760, 72765>>, <<72767, 72767>>,
       <<72850, 72871>>, <<72874, 72880>>, <<72882, 72883>>,
       <<72885, 72886>>, <<73009, 73014>>, <<73018, 73018>>,
       <<73020, 73021>>, <<73023, 73029>>, <<73031, 73031>>,
       <<73104, 73105>>, <<73109, 73109>>, <<73111, 73111>>,
       <<73459, 73460>>, <<78896, 78904>>, <<92912, 92916>>,
       <<92976, 92982>>, <<92992, 92995>>, <<94031, 94031>>,
       <<94095, 94111>>, <<94176, 94177>>, <<94179, 94180>>,
       <<110576, 110579>>, <<110581, 110587>>, <<110589, 110590>>,
       <<113821, 113822>>, <<113824, 113827>>, <<118528, 118573>>,
       <<118576, 118598>>, <<119143, 119145>>, <<119155, 119170>>,
       <<119173, 119179>>, <<119210, 119213>>, <<119362, 119364>>,
       <<121344, 121398>>, <<121403, 121452>>, <<121461, 121461>>,
       <<121476, 121476>>, <<121499, 121503>>, <<121505, 121519>>,
       <<122880, 122886>>, <<122888, 122904>>, <<122907, 122913>>,
       <<122915, 122916>>, <<122918, 122922>>, <<123184, 123197>>,
       <<123566, 123566>>, <<123628, 123631>>, <<125136, 125142>>,
       <<125252, 125259>>, <<127995, 127999>>, <<917505, 917505>>,
       <<917536, 917631>>, <<917760, 917999>>
    >>)

\* the capital sigma t[i] ends a word: the nearest character before it that
\* is not case-ignorable is cased, the nearest such after it is not
final_sigma(t, i) ==
    /\ \E j \in 1..(i - 1) :
          /\ t[j] \in CasedLetters
          /\ \A k \in (j + 1)..(i - 1) : t[k] \in CaseIgnorable
    /\ ~\E j \in (i + 1)..Len(t) :
          /\ t[j] \in CasedLetters
          /\ \A k \in (i + 1)..(j - 1) : t[k] \in CaseIgnorable

\* the lower case of an ASCII character
ascii_lower_ch(c) ==
    IF \E i \in 1..Len(UpperSeq) : UpperSeq[i] = c
    THEN LowerSeq[CHOOSE i \in 1..Len(UpperSeq) : UpperSeq[i] = c]
    ELSE c

\* the ASCII letters of t in lower case (C tolower)
ascii_lower(t) == [i \in 1..Len(t) |-> ascii_lower_ch(t[i])]

\* the lower case of the character t[i]
lower_ch(t, i) ==
    IF t[i] = "U+03A3"
    THEN IF final_sigma(t, i) THEN <<"U+03C2">> ELSE <<"U+03C3">>
    ELSE IF t[i] \in DOMAIN lower_of THEN lower_of[t[i]]
    ELSE <<ascii_lower_ch(t[i])>>

RECURSIVE lower_from(_, _)
lower_from(t, i) == IF i > Len(t) THEN <<>> ELSE lower_ch(t, i) \o lower_from(t, i + 1)

\* str.lower()
lower(t) == lower_from(t, 1)

\* str.contains(r"\d")
contains_digit(t) == \E i \in 1..Len(t) : t[i] \in Digits

\* ------------------------------------------------------------------------
\* Mappings
\* ------------------------------------------------------------------------

put(m, key, v) == [x \in DOMAIN m \cup {key} |-> IF x = key THEN v ELSE m[x]]

has(m, key) == key \in DOMAIN m

\* the decimal digits of a natural number
RECURSIVE nat_to_text(_)
nat_to_text(n) ==
    IF n < 10 THEN <<DigitSeq[n + 1]>>
    ELSE nat_to_text(n \div 10) \o <<DigitSeq[(n % 10) + 1]>>

\* str(n) of an integer
int_to_text(n) == IF n < 0 THEN <<"-">> \o nat_to_text(-n) ELSE nat_to_text(n)

\* t with zeros in front up to the length n
RECURSIVE zfill(_, _)
zfill(t, n) == IF Len(t) >= n THEN t ELSE zfill(<<"0">> \o t, n)

\* str(x) of the float x = m / 10^d (m no multiple of 10 when d > 0): the
\* shortest decimal that names x, with an exponent when x is below 0.0001
float_to_text(m, d) ==
    LET sig == nat_to_text(IF m < 0 THEN -m ELSE m)
        sign == IF m < 0 THEN <<"-">> ELSE <<>>
        x == Len(sig) - d - 1
        full == zfill(sig, d + 1)
    IN  IF m = 0 THEN <<"0", ".", "0">>
        ELSE IF x < -4
        THEN sign \o <<sig[1]>>
                  \o (IF Len(sig) > 1 THEN <<".">> \o Tail(sig) ELSE <<>>)
                  \o <<"e", "-">> \o zfill(nat_to_text(-x), 2)
        ELSE IF d = 0 THEN sign \o sig \o <<".", "0">>
        ELSE sign \o SubSeq(full, 1, Len(full) - d) \o <<".">>
                  \o SubSeq(full, Len(full) - d + 1, Len(full))

\* ------------------------------------------------------------------------
\* Cell values
\* ------------------------------------------------------------------------

StrV(t) == [k |-> "str", s |-> t, n |-> 0, d |-> 0]

IntV(m) == [k |-> "int", s |-> <<>>, n |-> m, d |-> 0]

\* the float m / 10^d in lowest terms
RECURSIVE DecV(_, _)
DecV(m, d) ==
    IF d > 0 /\ m % 10 = 0 THEN DecV(m \div 10, d - 1)
    ELSE [k |-> "float", s |-> <<>>, n |-> m, d |-> d]

BoolV(b) == [k |-> "bool", s |-> <<>>, n |-> IF b THEN 1 ELSE 0, d |-> 0]

\* the float infinity of sign sgn (1 or -1)
InfV(sgn) == [k |-> "inf", s |-> <<>>, n |-> sgn, d |-> 0]

NaN == [k |-> "nan", s |-> <<>>, n |-> 0, d |-> 0]

\* Series.astype(str): str(value) of every element
astype_str(v) ==
    CASE v.k = "str" -> v.s
      [] v.k = "int" -> int_to_text(v.n)
      [] v.k = "float" -> v.s \o float_to_text(v.n, v.d)
      [] v.k = "bool" -> IF v.n = 1 THEN <<"T", "r", "u", "e">>
                         ELSE <<"F", "a", "l", "s", "e">>
      [] v.k = "inf" -> IF v.n < 0 THEN <<"-", "i", "n", "f">> ELSE <<"i", "n", "f">>
      [] OTHER -> <<"n", "a", "n">>

\* ------------------------------------------------------------------------
\* DataFrames: [columns, index, data]; data[i] is row i, aligned to columns,
\* index[i] is the row's label.
\* ------------------------------------------------------------------------

has_col(df, c) == \E j \in 1..Len(df.columns) : df.columns[j] = c

col_pos(df, c) == CHOOSE j \in 1..Len(df.columns) : df.columns[j] = c

\* df[c] as a sequence of values in row order
column(df, c) ==
    LET j == col_pos(df, c) IN [i \in 1..Len(df.data) |-> df.data[i][j]]

\* positions i of 1..n with keep[i], in increasing order
RECURSIVE kept_positions(_, _)
kept_positions(keep, n) ==
    IF n = 0 THEN <<>>
    ELSE kept_positions(keep, n - 1) \o (IF keep[n] THEN <<n>> ELSE <<>>)

\* df.loc[mask]: the rows with a true mask, labels kept
loc_mask(df, keep) ==
    LET pos == kept_positions(keep, Len(df.data))
    IN  [columns |-> df.columns,
         index |-> [q \in 1..Len(pos) |-> df.index[pos[q]]],
         data |-> [q \in 1..Len(pos) |-> df.data[pos[q]]]]

\* ------------------------------------------------------------------------
\* clean_ned_column
\* ------------------------------------------------------------------------

empty_markers ==
    { <<>>, <<"n", "a", "n">>, <<"n", "o", "n", "e">>, <<"n", "u", "l", "l">>,
      <<"n", "a">>, <<"n", "/", "a">> }

last_n == 15

\* s = df[col_name].astype(str).str.strip()
stripped_text(v) == strip(astype_str(v))

mask_empty_like(t) == lower(t) \in empty_markers

\* the negation forgotten
mask_no_digits_inverted(t) == contains_digit(t)

mask_no_digits(t) == ~contains_digit(t)

\* the footer zone one row too long
footer_start_index_early(len) == max(0, len - last_n - 1)

footer_start_index(len) == max(0, len - last_n)

\* df.index >= footer_start_index; labels count from 0
approx_footer(label, len) == label >= footer_start_index(len)

mask_footer_text(t, label, len) == mask_no_digits(t) /\ approx_footer(label, len)

\* the footer rule left out
keep_mask_no_footer(t, label, len) == ~mask_empty_like(t)

keep_mask(t, label, len) == ~(mask_empty_like(t) \/ mask_footer_text(t, label, len))

clean_ned_column(df, col_name) ==
    LET j == col_pos(df, col_name)
        len == Len(df.data)
        s == [i \in 1..len |-> stripped_text(df.data[i][j])]
        keep == [i \in 1..len |-> keep_mask(s[i], df.index[i], len)]
        pos == kept_positions(keep, len)
        df_clean == loc_mask(df, keep)
    IN  [df_clean EXCEPT
           !.data = [q \in 1..Len(pos) |->
                        [df_clean.data[q] EXCEPT ![j] = StrV(s[pos[q]])]]]


\* ------------------------------------------------------------------------
\* Spreadsheet files: [columns, cells]; a cell is a text cell (k = "str"),
\* a number cell (k = "int", or k = "float" for a fraction), a boolean cell
\* (k = "bool"), a formula cell without a stored result (k = "formula"),
\* an error cell (k = "error") or a blank cell (k = "nan").
\* Tables are written with openpyxl, the engine the program names.
\* ------------------------------------------------------------------------

\* the characters the writer refuses in a text (ILLEGAL_CHARACTERS_RE)
IllegalCharacters ==
    { "U+0000", "U+0001", "U+0002", "U+0003", "U+0004", "U+0005", "U+0006",
      "U+0007", "U+0008", "U+000B", "\f", "U+000E", "U+000F", "U+0010",
      "U+0011", "U+0012", "U+0013", "U+0014", "U+0015", "U+0016", "U+0017",
      "U+0018", "U+0019", "U+001A", "U+001B", "U+001C", "U+001D", "U+001E",
      "U+001F" }

\* the texts the writer stores as error cells
ERROR_CODES ==
    { <<"#", "N", "U", "L", "L", "!">>,
      <<"#", "D", "I", "V", "/", "0", "!">>,
      <<"#", "V", "A", "L", "U", "E", "!">>,
      <<"#", "R", "E", "F", "!">>,
      <<"#", "N", "A", "M", "E", "?">>,
      <<"#", "N", "U", "M", "!">>,
      <<"#", "N", "/", "A">> }

FormulaCell(t) == [k |-> "formula", s |-> t, n |-> 0, d |-> 0]

ErrorCell(t) == [k |-> "error", s |-> t, n |-> 0, d |-> 0]

\* a text of more than one character that begins with "=" is stored as a
\* formula
is_formula(t) == Len(t) > 1 /\ t[1] = "="

\* the cell written for a value. An empty
\* string and NaN both leave the cell blank, an integral float is stored as
\* the number, an infinite float as the text "inf" or "-inf".
cell_of(v) ==
    CASE v.k = "str" -> IF v.s = <<>> THEN NaN
                        ELSE IF is_formula(v.s) THEN FormulaCell(v.s)
                        ELSE IF v.s \in ERROR_CODES THEN ErrorCell(v.s)
                        ELSE v
      [] v.k = "int" -> v
      [] v.k = "float" -> IF v.d = 0 THEN IntV(v.n) ELSE v
      [] v.k = "bool" -> v
      [] v.k = "inf" -> StrV(astype_str(v))
      [] OTHER -> NaN

\* the column label NaN, a float: the label read from an error cell; no
\* text of a form equals it
NaNName == "NaN (float)"

\* what the writer makes of a column name, written like any other cell:
\* whether it refuses the name, and the header cell as the reader hands it
\* on, which is the name for a text cell, NaN for an error cell, "" for a
\* blank cell and for a formula
header_of(name) ==
    LET t == [i \in 1..Len(name) |-> SubSeq(name, i, i)]
        c == cell_of(StrV(t))
    IN  IF name = NaNName THEN [refused |-> FALSE, cell |-> ""]
        ELSE [refused |-> \E i \in 1..Len(t) : t[i] \in IllegalCharacters,
              cell |-> IF c.k = "str" THEN name
                       ELSE IF c.k = "error" THEN NaNName ELSE ""]

\* the column names of the reports
rfm_columns ==
    <<"Passenger Category", "NED Pass No.", "Travelling Vendor Code",
      "Vendor Name", "Vendor Employee Name", "Gender", "Designation",
      "Originating Point", "Destination Point", "", "Charge">>

manifest_columns ==
    <<"Passenger Weight", "Baggage Weight", "", " ", "  ", "Time Reported">>

return_manifest_columns ==
    <<"Passenger Category", "Smart Card No.", "Supplier",
      "Vendor Employee Name", "Gender", "Designation", "", "Charge",
      "Pax wt.", "Baggage", "Originating Point", "Destination Point">>

\* the column names of the reports and rosters used here, also as read back
HeaderNames ==
    {"NED", "Name", "Pass", "Card", "=Name"}
    \cup {rfm_columns[j] : j \in 1..Len(rfm_columns)}
    \cup {manifest_columns[j] : j \in 1..Len(manifest_columns)}
    \cup {return_manifest_columns[j] : j \in 1..Len(return_manifest_columns)}
    \cup {"Unnamed: " \o ToString(j) : j \in 0..11}

\* their header cells, worked out once
known_headers == [name \in HeaderNames |-> header_of(name)]

header(name) ==
    IF name \in HeaderNames THEN known_headers[name] ELSE header_of(name)

is_illegal_text(t) == \E i \in 1..Len(t) : t[i] \in IllegalCharacters

\* the place of a cell in the order of writing: the header row, then the
\* columns one after the other, each from the top
cell_place(df, i, j) == Len(df.columns) + (j - 1) * Len(df.data) + i

\* the places of the texts the writer refuses
illegal_places(df) ==
    {j \in 1..Len(df.columns) :
        header(df.columns[j]).refused}
    \cup {cell_place(df, x[1], x[2]) :
            x \in {y \in (1..Len(df.data)) \X (1..Len(df.columns)) :
                     /\ df.data[y[1]][y[2]].k = "str"
                     /\ is_illegal_text(df.data[y[1]][y[2]].s)}}

\* to_excel raises IllegalCharacterError: some text of the table, a column
\* name or a value, holds a character the writer refuses
raises_illegal_character(df) ==
    \/ \E j \in 1..Len(df.columns) :
          header(df.columns[j]).refused
    \/ \E i \in 1..Len(df.data), j \in 1..Len(df.columns) :
          df.data[i][j].k = "str" /\ is_illegal_text(df.data[i][j].s)

\* the sheet with the cells written before the place stop; the file is
\* saved with these also when the writer raises
written(df, stop) ==
    [columns |-> [j \in 1..Len(df.columns) |->
                    IF j < stop THEN header(df.columns[j]).cell ELSE ""],
     cells |-> [i \in 1..Len(df.data) |->
                  [j \in 1..Len(df.columns) |->
                     IF cell_place(df, i, j) < stop THEN cell_of(df.data[i][j])
                     ELSE NaN]]]

\* DataFrame.to_excel(path, index=False): the writer stops at the first
\* text it refuses, or after the last cell
to_excel(df) ==
    written(df,
            IF raises_illegal_character(df)
            THEN CHOOSE p \in illegal_places(df) : \A q \in illegal_places(df) : p <= q
            ELSE cell_place(df, Len(df.data), Len(df.columns)) + 1)

\* pandas' default NA strings (read_excel, keep_default_na=True)
na_values ==
    { <<>>,
      <<"#", "N", "/", "A">>,
      <<"#", "N", "/", "A", " ", "N", "/", "A">>,
      <<"#", "N", "A">>,
      <<"-", "1", ".", "#", "I", "N", "D">>,
      <<"-", "1", ".", "#", "Q", "N", "A", "N">>,
      <<"-", "N", "a", "N">>,
      <<"-", "n", "a", "n">>,
      <<"1", ".", "#", "I", "N", "D">>,
      <<"1", ".", "#", "Q", "N", "A", "N">>,
      <<"<", "N", "A", ">">>,
      <<"N", "/", "A">>,
      <<"N", "A">>,
      <<"N", "U", "L", "L">>,
      <<"N", "a", "N">>,
      <<"N", "o", "n", "e">>,
      <<"n", "/", "a">>,
      <<"n", "a", "n">>,
      <<"n", "u", "l", "l">> }

\* the texts read as booleans (maybe_convert_bool)
true_values == { <<"T", "r", "u", "e">>, <<"T", "R", "U", "E">>, <<"t", "r", "u", "e">> }

false_values ==
    { <<"F", "a", "l", "s", "e">>, <<"F", "A", "L", "S", "E">>, <<"f", "a", "l", "s", "e">> }

\* A numeral is [sign] digits [. digits] [e|E [sign] digits] with a digit
\* before or after the point, between optional ASCII whitespace.

\* the position after the run of characters of chars that starts at i
RECURSIVE skip(_, _, _)
skip(t, i, chars) ==
    IF i <= Len(t) /\ t[i] \in chars THEN skip(t, i + 1, chars) ELSE i

is_at(t, i, chars) == i <= Len(t) /\ t[i] \in chars

\* the position after an optional sign at i
after_sign(t, i) == IF is_at(t, i, {"+", "-"}) THEN i + 1 ELSE i

\* the scan of a text as a numeral (to_double): where its parts end, and
\* whether the whole text was used. sign is the position of the sign or the
\* first digit, point the position after the integer digits, e the position
\* after the decimals, rest the position after the numeral.
scan_result(t, sign, point, e, rest) ==
    [ok |-> /\ (point - after_sign(t, sign)) + (IF e > point THEN e - point - 1 ELSE 0) > 0
            /\ skip(t, rest, AsciiWhitespace) = Len(t) + 1,
     maybe_int |-> e = point /\ rest = e,
     sign |-> sign, int |-> after_sign(t, sign), point |-> point, e |-> e,
     eint |-> after_sign(t, e + 1), rest |-> rest]

\* an exponent without digits is not part of the numeral
scan_exponent(t, sign, point, e) ==
    scan_result(t, sign, point, e,
                IF /\ is_at(t, e, {"e", "E"})
                   /\ skip(t, after_sign(t, e + 1), AsciiDigits) > after_sign(t, e + 1)
                THEN skip(t, after_sign(t, e + 1), AsciiDigits)
                ELSE e)

scan_fraction(t, sign, point) ==
    scan_exponent(t, sign, point,
                  IF is_at(t, point, {"."}) THEN skip(t, point + 1, AsciiDigits) ELSE point)

scan_digits(t, sign) == scan_fraction(t, sign, skip(t, after_sign(t, sign), AsciiDigits))

scan(t) == scan_digits(t, skip(t, 1, AsciiWhitespace))

\* a numeral of digits only: read as an integer
is_int_text(t) == scan(t).ok /\ scan(t).maybe_int

\* a numeral with a point or an exponent: read as a float
is_float_text(t) == scan(t).ok /\ ~scan(t).maybe_int

\* the names of infinity, in any case, with no whitespace around them
is_inf_text(t) ==
    ascii_lower(IF is_at(t, 1, {"+", "-"}) THEN Tail(t) ELSE t)
        \in { <<"i", "n", "f">>, <<"i", "n", "f", "i", "n", "i", "t", "y">> }

digit_value(c) == (CHOOSE i \in 1..10 : DigitSeq[i] = c) - 1

RECURSIVE text_to_int(_)
text_to_int(t) ==
    IF t = <<>> THEN 0
    ELSE 10 * text_to_int(SubSeq(t, 1, Len(t) - 1)) + digit_value(t[Len(t)])

RECURSIVE pow10(_)
pow10(k) == IF k = 0 THEN 1 ELSE 10 * pow10(k - 1)

\* the sign of the zero a numeral names: "-0.0" is the float -0.0, and "-0"
\* is the integer 0 and, in a column of floats, the float -0.0
zero_sign(t, p, digits) ==
    IF digits = 0 /\ is_at(t, p.sign, {"-"}) THEN <<"-">> ELSE <<>>

\* the number a numeral names, p being its scan: an integer, or the float
\* digits * 10^(exponent - number of decimals)
scanned_value(t, p, digits, shift) ==
    [(IF p.maybe_int THEN IntV(digits)
      ELSE IF shift >= 0 THEN DecV(digits * pow10(shift), 0)
      ELSE DecV(digits, -shift))
     EXCEPT !.s = zero_sign(t, p, digits)]

scan_value(t, p) ==
    scanned_value(t, p,
        (IF is_at(t, p.sign, {"-"}) THEN -1 ELSE 1)
            * text_to_int(SubSeq(t, p.int, p.point - 1) \o SubSeq(t, p.point + 1, p.e - 1)),
        (IF is_at(t, p.e + 1, {"-"}) THEN -1 ELSE 1)
            * text_to_int(SubSeq(t, p.eint, p.rest - 1))
            - Len(SubSeq(t, p.point + 1, p.e - 1)))

text_value(t) == scan_value(t, scan(t))

is_na_cell(c) ==
    \/ c.k \in {"nan", "formula", "error"}
    \/ c.k = "str" /\ c.s \in na_values

is_numeric_cell(c) ==
    \/ c.k \in {"int", "float", "bool", "inf"}
    \/ c.k = "str" /\ (scan(c.s).ok \/ is_inf_text(c.s))

\* the number of a numeric cell, as a value
numeric_value(c) ==
    IF c.k # "str" THEN c
    ELSE IF is_inf_text(c.s) THEN InfV(IF c.s[1] = "-" THEN -1 ELSE 1)
    ELSE text_value(c.s)

is_bool_cell(c) == c.k = "bool" \/ (c.k = "str" /\ c.s \in true_values \cup false_values)

bool_value(c) == IF c.k = "bool" THEN c ELSE BoolV(c.s \in true_values)

\* a numeric cell that is an integer; one that is a float
is_int_cell(c) == c.k = "int" \/ (c.k = "str" /\ is_int_text(c.s))

is_float_cell(c) ==
    c.k \in {"float", "inf"} \/ (c.k = "str" /\ ~is_int_text(c.s))

\* a number as float64
to_float(v) == IF v.k \in {"int", "bool"} THEN [DecV(v.n, 0) EXCEPT !.s = v.s] ELSE v

\* the type of a column (TextParser._infer_types). A column whose cells
\* are all numbers, booleans, numerals or NA is numeric: float when an NA
\* or a float occurs, else integer when an integer occurs, else boolean.
\* Any other column is boolean when all its cells but the NA ones are
\* booleans or the texts read as booleans; otherwise it keeps its objects.
column_dtype(cs) ==
    IF \A i \in 1..Len(cs) : is_na_cell(cs[i]) \/ is_numeric_cell(cs[i])
    THEN IF \E i \in 1..Len(cs) : is_na_cell(cs[i]) \/ is_float_cell(cs[i])
         THEN "float"
         ELSE IF \E i \in 1..Len(cs) : is_int_cell(cs[i]) THEN "int" ELSE "bool"
    ELSE IF \A i \in 1..Len(cs) : is_na_cell(cs[i]) \/ is_bool_cell(cs[i])
    THEN "bool" ELSE "object"

\* a cell as a value of a column of type dtype; NA cells become NaN
convert_cell(c, dtype) ==
    IF is_na_cell(c) THEN NaN
    ELSE CASE dtype = "float" -> to_float(numeric_value(c))
           [] dtype = "int" -> IntV(numeric_value(c).n)
           [] dtype = "bool" -> bool_value(c)
           [] OTHER -> c

convert_column(cs, dtype) == [i \in 1..Len(cs) |-> convert_cell(cs[i], dtype)]

\* the values read from the cells of one column
infer_column(cs) ==
    LET cells == cs
        dtype == column_dtype(cells)
    IN  convert_column(cells, dtype)

\* header row: an empty header cell is named "Unnamed: <position>"
unnamed(cols) ==
    [j \in 1..Len(cols) |->
       IF cols[j] = "" THEN "Unnamed: " \o ToString(j - 1) ELSE cols[j]]

\* the named columns are numbered before the unnamed ones
col_loop_order(cols) ==
    kept_positions([j \in 1..Len(cols) |-> cols[j] # ""], Len(cols))
    \o kept_positions([j \in 1..Len(cols) |-> cols[j] = ""], Len(cols))

count_of(counts, name) == IF name \in DOMAIN counts THEN counts[name] ELSE 0

\* the name given to a column called old that was seen cur times: old
\* itself the first time, then old.1, old.2, ... passing over the names
\* taken
RECURSIVE mangle(_, _, _, _, _)
mangle(old, col, cur, names, counts) ==
    IF cur = 0 THEN [col |-> col, counts |-> counts]
    ELSE LET counted == put(counts, old, cur + 1)
             new == (IF old = NaNName THEN "nan" ELSE old) \o "." \o ToString(cur)
         IN  IF \E j \in 1..Len(names) : names[j] = new
             THEN mangle(old, new, cur + 1, names, counted)
             ELSE mangle(old, new, count_of(counted, new), names, counted)

RECURSIVE dedup_names(_, _, _)
dedup_names(names, order, counts) ==
    IF order = <<>> THEN names
    ELSE LET i == Head(order)
             m == mangle(names[i], names[i], count_of(counts, names[i]), names, counts)
         IN  dedup_names([names EXCEPT ![i] = m.col], Tail(order),
                         put(m.counts, m.col, 1))

\* the column names of a header row: unnamed cells named, repeated names
\* made distinct
read_header(cols) ==
    dedup_names(unnamed(cols), col_loop_order(cols), [x \in {} |-> 0])

\* a cell the reader hands on as the empty string
is_blank_cell(c) == c.k \in {"nan", "formula"} \/ (c.k = "str" /\ c.s = <<>>)

\* the reader drops the trailing rows whose cells are all blank
RECURSIVE trim_rows(_)
trim_rows(cells) ==
    IF cells # <<>> /\ \A j \in 1..Len(cells[Len(cells)]) : is_blank_cell(cells[Len(cells)][j])
    THEN trim_rows(SubSeq(cells, 1, Len(cells) - 1))
    ELSE cells

\* the length of a row once the reader has removed its trailing blank
\* cells: of the header row and of a row of cells
header_width(cols) ==
    IF \A j \in 1..Len(cols) : cols[j] = "" THEN 0
    ELSE CHOOSE j \in 1..Len(cols) :
            cols[j] # "" /\ \A k \in (j + 1)..Len(cols) : cols[k] = ""

cells_width(row) ==
    IF \A j \in 1..Len(row) : is_blank_cell(row[j]) THEN 0
    ELSE CHOOSE j \in 1..Len(row) :
            ~is_blank_cell(row[j]) /\ \A k \in (j + 1)..Len(row) : is_blank_cell(row[k])

\* the rows are padded to the widest of them, the header row included
sheet_width(cols, rows) ==
    LET widths == {header_width(cols)} \cup {cells_width(rows[i]) : i \in 1..Len(rows)}
    IN  CHOOSE w \in widths : \A v \in widths : v <= w

\* pd.read_excel(path): trailing blank rows and trailing blank cells
\* dropped, header from the first row, RangeIndex, inferred types
read_excel(file) ==
    LET rows == trim_rows(file.cells)
        nrows == Len(rows)
        ncols == sheet_width(file.columns, rows)
        cols == [j \in 1..ncols |->
                   infer_column([i \in 1..nrows |-> rows[i][j]])]
    IN  [columns |-> read_header(SubSeq(file.columns, 1, ncols)),
         index |-> [i \in 1..nrows |-> i - 1],
         data |-> [i \in 1..nrows |-> [j \in 1..ncols |-> cols[j][i]]]]


\* ------------------------------------------------------------------------
\* State
\* ------------------------------------------------------------------------

VARIABLES
    session,    \* user -> the user's cookie session: a mapping key -> value
    files,      \* the tmp folder: <<job_id, name>> -> stored workbook
    next_job,   \* the next job id uuid4 hands out (ids are never repeated)
    last,       \* the last request: handler, user, response, locals at exit
    hist,       \* user -> has the duplicate warning been shown / answered
    pure        \* clean_ned_column applied on its own: input and results

vars == <<session, files, next_job, last, hist, pure>>

EmptySession == [x \in {} |-> 0]

redirect(to) == [kind |-> "redirect", to |-> to]

render_template(name) == [kind |-> "render", to |-> name]

send_file(name) == [kind |-> "send_file", to |-> name]

server_error(what) == [kind |-> "error", to |-> what]

NoLocals == [none |-> TRUE]

request(handler, u, response, locals) ==
    [handler |-> handler, user |-> u, response |-> response, locals |-> locals]

\* ------------------------------------------------------------------------
\* Per-session files
\* ------------------------------------------------------------------------

\* one path per name, whatever the job
get_path_shared(sess, name) == <<0, name>>

\* get_path(name): the path is determined by the session's job id and name
get_path(sess, name) == <<sess["job_id"], name>>

file_exists(fs, sess, name) == get_path(sess, name) \in DOMAIN fs

\* a cleaned table also replaces the raw table it was made from
save_df_over_raw(fs, sess, df, name) ==
    LET raw == IF name = "pob_clean" THEN "pob_raw"
               ELSE IF name = "portal_clean" THEN "portal_raw" ELSE name
    IN  put(put(fs, get_path(sess, name), to_excel(df)), get_path(sess, raw), to_excel(df))

\* save_df(df, name): files after the write, which leaves the cells written
\* so far when it raises
save_df(fs, sess, df, name) == put(fs, get_path(sess, name), to_excel(df))

\* load_df(name)
load_df(fs, sess, name) == read_excel(fs[get_path(sess, name)])


\* every session gets the job id 1
get_job_id_same(sess) ==
    IF has(sess, "job_id") THEN sess ELSE put(sess, "job_id", 1)

\* get_job_id(): the session with a job id, a fresh one when it had none
get_job_id(sess) ==
    IF has(sess, "job_id") THEN sess ELSE put(sess, "job_id", next_job)

\* ------------------------------------------------------------------------
\* Request outcomes
\* ------------------------------------------------------------------------

\* a request that only answers: nothing stored, session untouched
respond(handler, u, response) ==
    /\ last' = request(handler, u, response, NoLocals)
    /\ UNCHANGED <<session, files, next_job, hist, pure>>

\* an exception the handler does not catch, raised when the files are fs.
\* The session writes made before it reach the browser when the server
\* answers the error itself and are lost when the exception propagates
\* (debug server). A job id handed out by the request is used up once it
\* is stored in the session or in a file name.
fail_after(handler, u, what, sess, locals, fs, h) ==
    /\ \E saved \in BOOLEAN :
          /\ session' = [session EXCEPT ![u] = IF saved THEN sess ELSE session[u]]
          /\ hist' = [hist EXCEPT ![u] = IF saved THEN h ELSE hist[u]]
          /\ next_job' = IF /\ has(sess, "job_id")
                            /\ sess["job_id"] = next_job
                            /\ (saved \/ fs # files)
                         THEN next_job + 1 ELSE next_job
    /\ files' = fs
    /\ last' = request(handler, u, server_error(what), locals)
    /\ UNCHANGED pure

\* an exception raised before the request has written a file
fail(handler, u, what, sess, locals) ==
    fail_after(handler, u, what, sess, locals, files, hist[u])

\* ------------------------------------------------------------------------
\* Step 1: upload
\* ------------------------------------------------------------------------

upload_get(u) == respond("upload", u, render_template("upload.html"))

\* a file part of the upload form is a workbook [columns, cells], a part
\* that is no workbook (an empty or a text file), or is missing
NotAWorkbook == [part |-> "not a workbook"]

NoPart == [part |-> "missing"]

is_workbook(file) == "cells" \in DOMAIN file

\* lines 121-129: the column names go to the session, the two tables to
\* disk; a table the writer refuses is stored in part and ends the request
upload_store(u, s0, pob_df, portal_df) ==
    LET s1 == put(put(s0, "pob_cols", pob_df.columns),
                  "portal_cols", portal_df.columns)
        f1 == save_df(files, s1, pob_df, "pob_raw")
        f2 == save_df(f1, s1, portal_df, "portal_raw")
        fresh == [warned |-> FALSE, proceed |-> FALSE]
    IN  IF raises_illegal_character(pob_df)
        THEN fail_after("upload", u, "IllegalCharacterError", s1, NoLocals, f1, fresh)
        ELSE IF raises_illegal_character(portal_df)
        THEN fail_after("upload", u, "IllegalCharacterError", s1, NoLocals, f2, fresh)
        ELSE /\ session' = [session EXCEPT ![u] = s1]
             /\ files' = f2
             /\ next_job' = next_job + 1
             /\ hist' = [hist EXCEPT ![u] = fresh]
             /\ last' = request("upload", u, redirect("select_columns"), NoLocals)
             /\ UNCHANGED pure

upload(u, pob_file, portal_file) ==
    LET s0 == get_job_id(EmptySession)
        fresh == [warned |-> FALSE, proceed |-> FALSE]
    IN  IF pob_file = NoPart \/ portal_file = NoPart
        THEN fail_after("upload", u, "BadRequestKeyError", s0, NoLocals, files, fresh)
        ELSE IF ~is_workbook(pob_file) \/ ~is_workbook(portal_file)
        THEN fail_after("upload", u, "ValueError", s0, NoLocals, files, fresh)
        ELSE upload_store(u, s0, read_excel(pob_file), read_excel(portal_file))

\* ------------------------------------------------------------------------
\* Step 2: column selection
\* ------------------------------------------------------------------------

select_columns_get(u) ==
    IF ~has(session[u], "pob_cols") \/ ~has(session[u], "portal_cols")
    THEN respond("select_columns", u, redirect("upload"))
    ELSE respond("select_columns", u, render_template("column_select.html"))

selection_keys == <<"pob_ned", "pob_name", "portal_ned", "portal_name">>

\* session[key] = request.form[key] for the keys in turn, up to the first
\* key the form does not hold
RECURSIVE put_form(_, _, _)
put_form(sess, form, keys) ==
    IF keys = <<>> \/ Head(keys) \notin DOMAIN form THEN sess
    ELSE put_form(put(sess, Head(keys), form[Head(keys)]), form, Tail(keys))

\* lines 160-163: the cleaned tables are stored
select_columns_save(u, s1, pob_df_clean, portal_df_clean) ==
    /\ session' = [session EXCEPT ![u] = s1]
    /\ files' = save_df(save_df(files, s1, pob_df_clean, "pob_clean"),
                        s1, portal_df_clean, "portal_clean")
    /\ last' = request("select_columns", u, redirect("check_duplicates"),
                       [pob_index |-> pob_df_clean.index,
                        portal_index |-> portal_df_clean.index])
    /\ UNCHANGED <<next_job, hist, pure>>

\* lines 154-158: the selected identifier columns are cleaned
select_columns_clean(u, form, s1, pob_df, portal_df) ==
    IF ~has_col(pob_df, form.pob_ned) \/ ~has_col(portal_df, form.portal_ned)
    THEN fail("select_columns", u, "KeyError", s1, NoLocals)
    ELSE select_columns_save(u, s1, clean_ned_column(pob_df, form.pob_ned),
                             clean_ned_column(portal_df, form.portal_ned))

select_columns(u, form) ==
    LET sess == session[u]
        s1 == put_form(sess, form, selection_keys)
    IN  IF ~has(sess, "pob_cols") \/ ~has(sess, "portal_cols")
        THEN respond("select_columns", u, redirect("upload"))
        ELSE IF \E i \in 1..Len(selection_keys) : selection_keys[i] \notin DOMAIN form
        THEN fail("select_columns", u, "BadRequestKeyError", s1, NoLocals)
        ELSE IF ~file_exists(files, s1, "pob_raw") \/ ~file_exists(files, s1, "portal_raw")
        THEN fail("select_columns", u, "FileNotFoundError", s1, NoLocals)
        ELSE select_columns_clean(u, form, s1, load_df(files, s1, "pob_raw"),
                                  load_df(files, s1, "portal_raw"))

\* ------------------------------------------------------------------------
\* Step 3: duplicate check
\* ------------------------------------------------------------------------

\* equality of two loaded values as isin / duplicated see it
val_eq(a, b) ==
    IF a.k \in {"int", "float", "bool"} /\ b.k \in {"int", "float", "bool"}
    THEN a.n = b.n /\ a.d = b.d
    ELSE a.k = b.k /\ a.s = b.s /\ a.n = b.n

\* Series.duplicated(keep=False)
duplicated(vals) ==
    [i \in 1..Len(vals) |-> \E k \in 1..Len(vals) : k # i /\ val_eq(vals[k], vals[i])]

\* mask.any()
any(mask) == \E i \in 1..Len(mask) : mask[i]

\* the highlighted cells: sheet row i + 1 of the identifier column
fill_cells(mask, ned_idx) == {<<i + 1, ned_idx>> : i \in {k \in 1..Len(mask) : mask[k]}}

save_duplicate_workbook(fs, sess, workbook) ==
    put(fs, <<sess["job_id"], "duplicates">>, workbook)

\* lines 191-229: the warning with the highlighted workbook, or the way on
check_duplicates_answer(u, sess, pob, portal, pob_dup_mask, portal_dup_mask) ==
    LET pob_ned == sess["pob_ned"]
        portal_ned == sess["portal_ned"]
        pob_dup == any(pob_dup_mask)
        portal_dup == any(portal_dup_mask)
        workbook == [POB |-> to_excel(pob),
                     PORTAL |-> to_excel(portal),
                     pob_fill |-> fill_cells(pob_dup_mask, col_pos(pob, pob_ned)),
                     portal_fill |-> fill_cells(portal_dup_mask, col_pos(portal, portal_ned))]
        locals == [pob |-> pob, portal |-> portal,
                   pob_dup_mask |-> pob_dup_mask,
                   portal_dup_mask |-> portal_dup_mask,
                   pob_dup |-> pob_dup, portal_dup |-> portal_dup]
    IN  IF pob_dup \/ portal_dup
        THEN /\ files' = save_duplicate_workbook(files, sess, workbook)
             /\ session' = [session EXCEPT
                              ![u] = put(sess, "duplicate_path", <<sess["job_id"], "duplicates">>)]
             /\ hist' = [hist EXCEPT ![u].warned = TRUE]
             /\ last' = request("check_duplicates", u,
                                render_template("duplicate_warning.html"), locals)
             /\ UNCHANGED <<next_job, pure>>
        ELSE /\ last' = request("check_duplicates", u, redirect("user_inputs"), locals)
             /\ UNCHANGED <<session, files, next_job, hist, pure>>

\* lines 185-186: the duplicate masks of the two identifier columns
check_duplicates_masks(u, sess, pob, portal) ==
    IF ~has_col(pob, sess["pob_ned"]) \/ ~has_col(portal, sess["portal_ned"])
    THEN fail("check_duplicates", u, "KeyError", sess, NoLocals)
    ELSE check_duplicates_answer(u, sess, pob, portal,
                                 duplicated(column(pob, sess["pob_ned"])),
                                 duplicated(column(portal, sess["portal_ned"])))

check_duplicates(u) ==
    LET sess == session[u]
    IN  IF ~has(sess, "pob_ned") \/ ~has(sess, "portal_ned")
        THEN respond("check_duplicates", u, redirect("upload"))
        ELSE IF ~file_exists(files, sess, "pob_clean") \/ ~file_exists(files, sess, "portal_clean")
        THEN fail("check_duplicates", u, "FileNotFoundError", sess, NoLocals)
        ELSE check_duplicates_masks(u, sess, load_df(files, sess, "pob_clean"),
                                    load_df(files, sess, "portal_clean"))

duplicate_decision(u, form) ==
    IF "decision" \notin DOMAIN form
    THEN fail("duplicate_decision", u, "BadRequestKeyError", session[u], NoLocals)
    ELSE /\ last' = request("duplicate_decision", u,
                            IF form.decision = "reupload" THEN redirect("upload")
                            ELSE redirect("user_inputs"),
                            [decision |-> form.decision])
         /\ hist' = [hist EXCEPT
                       ![u].proceed = @ \/ (hist[u].warned /\ form.decision # "reupload")]
         /\ UNCHANGED <<session, files, next_job, pure>>

download_duplicates(u) ==
    IF ~has(session[u], "duplicate_path") \/ session[u]["duplicate_path"] \notin DOMAIN files
    THEN respond("download_duplicates", u, redirect("upload"))
    ELSE /\ last' = request("download_duplicates", u,
                            send_file("Uploaded_with_Duplicates_Highlighted.xlsx"),
                            [workbook |-> files[session[u]["duplicate_path"]]])
         /\ UNCHANGED <<session, files, next_job, hist, pure>>

\* ------------------------------------------------------------------------
\* Step 4: user inputs
\* ------------------------------------------------------------------------

user_inputs_get(u) ==
    IF ~has(session[u], "pob_ned") \/ ~has(session[u], "portal_ned")
    THEN respond("user_inputs", u, redirect("upload"))
    ELSE respond("user_inputs", u, render_template("user_inputs.html"))

user_inputs(u, form) ==
    IF ~has(session[u], "pob_ned") \/ ~has(session[u], "portal_ned")
    THEN respond("user_inputs", u, redirect("upload"))
    ELSE /\ session' = [session EXCEPT ![u] = put(session[u], "inputs", form)]
         /\ last' = request("user_inputs", u, redirect("generate"), NoLocals)
         /\ UNCHANGED <<files, next_job, hist, pure>>


\* ------------------------------------------------------------------------
\* Step 5: reconciliation and reports
\* ------------------------------------------------------------------------

\* Series.isin(values)
isin(v, vals) == \E k \in 1..Len(vals) : val_eq(v, vals[k])

\* nothing is missing from a table without rows
missing_rows_unless_empty(df, ned, other, other_ned) ==
    LET ids == column(df, ned)
        other_ids == column(other, other_ned)
    IN  loc_mask(df, [i \in 1..Len(ids) |-> other_ids # <<>> /\ ~isin(ids[i], other_ids)])

\* df[~df[ned].isin(other[other_ned])]
missing_rows(df, ned, other, other_ned) ==
    LET ids == column(df, ned)
        other_ids == column(other, other_ned)
    IN  loc_mask(df, [i \in 1..Len(ids) |-> ~isin(ids[i], other_ids)])

rfm_keys ==
    {"rfm_category", "vendor_code", "vendor_name", "gender", "rfm_origin",
     "rfm_destination", "charge"}

manifest_keys == {"passenger_weight", "baggage_weight", "time_reported"}

return_manifest_keys ==
    {"return_category", "supplier", "gender", "charge", "passenger_weight",
     "baggage_weight", "return_origin", "return_destination"}

blank == StrV(<<>>)

\* a row only for the first occurrence of an identifier
build_rfm_unique(inputs, missing_in_portal, pob_ned, pob_name) ==
    LET ned == col_pos(missing_in_portal, pob_ned)
        ids == column(missing_in_portal, pob_ned)
        first == [i \in 1..Len(ids) |-> \A k \in 1..(i - 1) : ids[k] # ids[i]]
        rows == loc_mask(missing_in_portal, first)
    IN
    [columns |-> rfm_columns,
     index |-> rows.index,
     data |-> [i \in 1..Len(rows.data) |->
                 << StrV(inputs["rfm_category"]), rows.data[i][ned],
                    StrV(inputs["vendor_code"]), StrV(inputs["vendor_name"]),
                    rows.data[i][col_pos(rows, pob_name)],
                    StrV(inputs["gender"]), StrV(<<>>),
                    StrV(inputs["rfm_origin"]), StrV(inputs["rfm_destination"]),
                    StrV(<<>>), StrV(inputs["charge"]) >>]]

build_rfm(inputs, missing_in_portal, pob_ned, pob_name) ==
    LET ned == col_pos(missing_in_portal, pob_ned)
        name == col_pos(missing_in_portal, pob_name)
    IN
    [columns |-> rfm_columns,
     index |-> missing_in_portal.index,
     data |-> [i \in 1..Len(missing_in_portal.data) |->
                 << StrV(inputs["rfm_category"]),
                    missing_in_portal.data[i][ned],
                    StrV(inputs["vendor_code"]),
                    StrV(inputs["vendor_name"]),
                    missing_in_portal.data[i][name],
                    StrV(inputs["gender"]),
                    blank,
                    StrV(inputs["rfm_origin"]),
                    StrV(inputs["rfm_destination"]),
                    blank,
                    StrV(inputs["charge"]) >>]]

build_manifest(inputs, rfm) ==
    [columns |-> manifest_columns,
     index |-> rfm.index,
     data |-> [i \in 1..Len(rfm.index) |->
                 << StrV(inputs["passenger_weight"]),
                    StrV(inputs["baggage_weight"]),
                    blank, blank, blank,
                    StrV(inputs["time_reported"]) >>]]

\* supplier and category exchanged, the name column read for the identifier
build_return_manifest_mixed(inputs, missing_in_pob, portal_ned, portal_name) ==
    LET name == col_pos(missing_in_pob, portal_name)
    IN
    [columns |-> return_manifest_columns,
     index |-> missing_in_pob.index,
     data |-> [i \in 1..Len(missing_in_pob.data) |->
                 << StrV(inputs["supplier"]),
                    missing_in_pob.data[i][name],
                    StrV(inputs["return_category"]),
                    missing_in_pob.data[i][name],
                    StrV(inputs["gender"]),
                    StrV(<<>>), StrV(<<>>),
                    StrV(inputs["charge"]),
                    StrV(inputs["passenger_weight"]),
                    StrV(inputs["baggage_weight"]),
                    StrV(inputs["return_origin"]),
                    StrV(inputs["return_destination"]) >>]]

build_return_manifest(inputs, missing_in_pob, portal_ned, portal_name) ==
    LET ned == col_pos(missing_in_pob, portal_ned)
        name == col_pos(missing_in_pob, portal_name)
    IN
    [columns |-> return_manifest_columns,
     index |-> missing_in_pob.index,
     data |-> [i \in 1..Len(missing_in_pob.data) |->
                 << StrV(inputs["return_category"]),
                    missing_in_pob.data[i][ned],
                    StrV(inputs["supplier"]),
                    missing_in_pob.data[i][name],
                    StrV(inputs["gender"]),
                    blank, blank,
                    StrV(inputs["charge"]),
                    StrV(inputs["passenger_weight"]),
                    StrV(inputs["baggage_weight"]),
                    StrV(inputs["return_origin"]),
                    StrV(inputs["return_destination"]) >>]]

\* lines 331-340: the three reports are stored; a report the writer refuses
\* is stored in part and ends the request
generate_save(u, s1, reconciled, rfm, manifest, return_manifest) ==
    LET f1 == save_df(files, s1, rfm, "rfm_final")
        f2 == save_df(f1, s1, manifest, "manifest_final")
        f3 == save_df(f2, s1, return_manifest, "return_manifest_final")
    IN  IF raises_illegal_character(rfm)
        THEN fail_after("generate", u, "IllegalCharacterError", s1, reconciled, f1, hist[u])
        ELSE IF raises_illegal_character(manifest)
        THEN fail_after("generate", u, "IllegalCharacterError", s1, reconciled, f2, hist[u])
        ELSE IF raises_illegal_character(return_manifest)
        THEN fail_after("generate", u, "IllegalCharacterError", s1, reconciled, f3, hist[u])
        ELSE /\ session' = [session EXCEPT ![u] = s1]
             /\ files' = f3
             /\ last' = request("generate", u, render_template("result.html"),
                                [pob |-> reconciled.pob, portal |-> reconciled.portal,
                                 missing_in_portal |-> reconciled.missing_in_portal,
                                 missing_in_pob |-> reconciled.missing_in_pob,
                                 manifest_count |-> reconciled.manifest_count,
                                 return_count |-> reconciled.return_count,
                                 rfm |-> rfm, manifest |-> manifest,
                                 return_manifest |-> return_manifest])
             /\ UNCHANGED <<next_job, hist, pure>>

\* lines 284-329: the counts go to the session, the reports are built
generate_reports(u, sess, reconciled) ==
    LET inputs == sess["inputs"]
        s1 == put(put(sess, "manifest_count", reconciled.manifest_count),
                  "return_count", reconciled.return_count)
    IN  IF \/ ~(rfm_keys \cup manifest_keys \cup return_manifest_keys \subseteq DOMAIN inputs)
           \/ ~has_col(reconciled.pob, sess["pob_name"])
           \/ ~has_col(reconciled.portal, sess["portal_name"])
        THEN fail("generate", u, "KeyError", s1, reconciled)
        ELSE generate_save(u, s1, reconciled,
                 build_rfm(inputs, reconciled.missing_in_portal,
                           sess["pob_ned"], sess["pob_name"]),
                 build_manifest(inputs,
                     build_rfm(inputs, reconciled.missing_in_portal,
                               sess["pob_ned"], sess["pob_name"])),
                 build_return_manifest(inputs, reconciled.missing_in_pob,
                                       sess["portal_ned"], sess["portal_name"]))

\* lines 281-285: the two set differences and their sizes
reconcile(pob, pob_ned, portal, portal_ned, missing_in_portal, missing_in_pob) ==
    [pob |-> pob, portal |-> portal,
     missing_in_portal |-> missing_in_portal,
     missing_in_pob |-> missing_in_pob,
     manifest_count |-> Len(missing_in_portal.data),
     return_count |-> Len(missing_in_pob.data)]

generate_loaded(u, sess, pob, portal) ==
    IF ~has_col(pob, sess["pob_ned"]) \/ ~has_col(portal, sess["portal_ned"])
    THEN fail("generate", u, "KeyError", sess, NoLocals)
    ELSE generate_reports(u, sess,
             reconcile(pob, sess["pob_ned"], portal, sess["portal_ned"],
                       missing_rows(pob, sess["pob_ned"], portal, sess["portal_ned"]),
                       missing_rows(portal, sess["portal_ned"], pob, sess["pob_ned"])))

\* an absent field is taken as blank
generate_defaulting(u) ==
    LET sess == session[u]
        given == sess["inputs"]
        inputs == [f \in rfm_keys \cup manifest_keys \cup return_manifest_keys |->
                      IF f \in DOMAIN given THEN given[f] ELSE <<>>]
        pob == load_df(files, sess, "pob_clean")
        portal == load_df(files, sess, "portal_clean")
        missing_in_portal == missing_rows(pob, sess["pob_ned"], portal, sess["portal_ned"])
        missing_in_pob == missing_rows(portal, sess["portal_ned"], pob, sess["pob_ned"])
        s1 == put(put(sess, "manifest_count", Len(missing_in_portal.data)),
                  "return_count", Len(missing_in_pob.data))
        rfm == build_rfm(inputs, missing_in_portal, sess["pob_ned"], sess["pob_name"])
        manifest == build_manifest(inputs, rfm)
        return_manifest ==
            build_return_manifest(inputs, missing_in_pob, sess["portal_ned"], sess["portal_name"])
        f1 == save_df(files, s1, rfm, "rfm_final")
        f2 == save_df(f1, s1, manifest, "manifest_final")
        f3 == save_df(f2, s1, return_manifest, "return_manifest_final")
    IN  IF ~has(sess, "inputs")
        THEN respond("generate", u, redirect("upload"))
        ELSE IF \E i \in 1..Len(selection_keys) : ~has(sess, selection_keys[i])
        THEN fail("generate", u, "KeyError", sess, NoLocals)
        ELSE IF ~file_exists(files, sess, "pob_clean") \/ ~file_exists(files, sess, "portal_clean")
        THEN fail("generate", u, "FileNotFoundError", sess, NoLocals)
        ELSE IF \/ ~has_col(pob, sess["pob_ned"]) \/ ~has_col(portal, sess["portal_ned"])
                \/ ~has_col(pob, sess["pob_name"]) \/ ~has_col(portal, sess["portal_name"])
        THEN fail("generate", u, "KeyError", sess, NoLocals)
        ELSE /\ session' = [session EXCEPT ![u] = s1]
             /\ files' = f3
             /\ last' = request("generate", u, render_template("result.html"),
                                [missing_in_portal |-> missing_in_portal,
                                 missing_in_pob |-> missing_in_pob,
                                 manifest_count |-> Len(missing_in_portal.data),
                                 return_count |-> Len(missing_in_pob.data),
                                 rfm |-> rfm, manifest |-> manifest,
                                 return_manifest |-> return_manifest])
             /\ UNCHANGED <<next_job, hist, pure>>

generate(u) ==
    \* the guard, the selection read from the session (lines 272-276), the
    \* cleaned tables loaded
    LET sess == session[u]
    IN  IF ~has(sess, "inputs")
        THEN respond("generate", u, redirect("upload"))
        ELSE IF \E i \in 1..Len(selection_keys) : ~has(sess, selection_keys[i])
        THEN fail("generate", u, "KeyError", sess, NoLocals)
        ELSE IF ~file_exists(files, sess, "pob_clean") \/ ~file_exists(files, sess, "portal_clean")
        THEN fail("generate", u, "FileNotFoundError", sess, NoLocals)
        ELSE generate_loaded(u, sess, load_df(files, sess, "pob_clean"),
                             load_df(files, sess, "portal_clean"))

\* ------------------------------------------------------------------------
\* Step 6: download
\* ------------------------------------------------------------------------

download(u) ==
    LET sess == get_job_id(session[u])
        rfm == load_df(files, sess, "rfm_final")
        manifest == load_df(files, sess, "manifest_final")
        return_manifest == load_df(files, sess, "return_manifest_final")
    IN  IF \/ ~file_exists(files, sess, "rfm_final")
           \/ ~file_exists(files, sess, "manifest_final")
           \/ ~file_exists(files, sess, "return_manifest_final")
        THEN fail("download", u, "FileNotFoundError", sess, NoLocals)
        ELSE /\ last' = request("download", u, send_file("Final_Output.xlsx"),
                                [RFM |-> to_excel(rfm),
                                 Manifest |-> to_excel(manifest),
                                 ReturnManifest |-> to_excel(return_manifest)])
             /\ UNCHANGED <<session, files, next_job, hist, pure>>


\* ------------------------------------------------------------------------
\* Inputs of the model
\* ------------------------------------------------------------------------

MaxHead == 2

MaxBody == 17

MaxJobs == 2

MaxAbsent == 1

\* all sequences over S of length at most n
RECURSIVE SeqsUpTo(_, _)
SeqsUpTo(S, n) ==
    IF n = 0 THEN {<<>>}
    ELSE LET shorter == SeqsUpTo(S, n - 1)
         IN  shorter \cup {Append(t, x) : t \in shorter, x \in S}

\* rows "F1", "F2", ...: ordinary identifiers, the same in both rosters
filler(k) == [i \in 1..k |-> StrV(<<"F">> \o int_to_text(i))]

TotalCell == StrV(<<"T", "o", "t", "a", "l">>)

P1 == StrV(<<"P", "1">>)

\* an uploaded workbook with the columns NED and Name; the names are
\* "n1", "n2", ... by row
workbook_of(ned_cells) ==
    [columns |-> <<"NED", "Name">>,
     cells |-> [i \in 1..Len(ned_cells) |->
                  <<ned_cells[i], StrV(<<"n">> \o int_to_text(i))>>]]

PobCells == { P1, StrV(<<"\t", "P", "1", "U+00A0">>), IntV(7), TotalCell }

\* short rosters, and rosters longer than the footer zone that end in a
\* footer line
PobFiles ==
    { workbook_of(h) : h \in SeqsUpTo(PobCells, MaxHead) }
    \cup { workbook_of(<<c>> \o filler(last_n) \o <<TotalCell>>) : c \in PobCells }

PortalHeads ==
    { <<>>,
      <<P1>>,
      <<StrV(<<"p", "1">>)>>,
      <<IntV(7)>>,
      <<IntV(7), P1>>,
      <<IntV(7), NaN>>,
      <<StrV(<<"P", "2">>), StrV(<<"P", "2">>)>>,
      <<StrV(<<"0", "7">>), IntV(7), TotalCell>>,
      <<StrV(<<" ", "=", "P", "1">>), StrV(<<"+", "7">>)>> }

PortalFiles ==
    { workbook_of(h) : h \in PortalHeads }
    \cup { workbook_of(<<TotalCell, P1>> \o filler(last_n)) }

ValidColumns ==
    [pob_ned |-> "NED", pob_name |-> "Name", portal_ned |-> "NED", portal_name |-> "Name"]

\* the column forms: existing columns, a column that does not exist, and
\* a form without the Portal fields
ColumnForms ==
    { ValidColumns,
      [ValidColumns EXCEPT !.portal_ned = "Other"],
      [ValidColumns EXCEPT !.pob_name = "Other"],
      [pob_ned |-> "NED", pob_name |-> "Name"] }

Fields ==
    <<"rfm_category", "vendor_code", "vendor_name", "gender", "rfm_origin",
      "rfm_destination", "charge", "passenger_weight", "baggage_weight",
      "time_reported", "return_category", "supplier", "return_origin",
      "return_destination">>

FieldSet == {Fields[i] : i \in 1..Len(Fields)}

field_no(f) == CHOOSE i \in 1..Len(Fields) : Fields[i] = f

\* every field filled with its own text "v1" .. "v14"
DistinctInputs == [f \in FieldSet |-> <<"v">> \o int_to_text(field_no(f))]

\* every field filled with a numeral "71" .. "84"
NumeralInputs == [f \in FieldSet |-> int_to_text(70 + field_no(f))]

\* a form without the field charge
PartialInputs == [f \in FieldSet \ {"charge"} |-> <<"x">>]

InputForms == {DistinctInputs, NumeralInputs, PartialInputs}

\* the forms of the request-order model
FlowInputForms == {DistinctInputs, PartialInputs}

\* the decision forms: either answer, and a form without the field
DecisionForms == {[decision |-> "reupload"], [decision |-> "proceed"], [other |-> "x"]}

Users == {"u1"}

IdlePure == [pc |-> "idle"]

\* rosters of the request-order model: with and without a repeated identifier
FlowPobFiles == { workbook_of(<<P1, P1>>), workbook_of(<<P1>>) }

FlowPortalFiles == { workbook_of(<<P1, StrV(<<"P", "2">>)>>) }

\* ------------------------------------------------------------------------
\* The wizard: any request at any time
\* ------------------------------------------------------------------------

Init ==
    /\ session = [u \in Users |-> EmptySession]
    /\ files = [x \in {} |-> 0]
    /\ next_job = 1
    /\ last = request("none", "none", render_template("none"), NoLocals)
    /\ hist = [u \in Users |-> [warned |-> FALSE, proceed |-> FALSE]]
    /\ pure = IdlePure

Upload(u) ==
    /\ next_job <= MaxJobs
    /\ \E pob_file \in FlowPobFiles \cup {NotAWorkbook},
          portal_file \in FlowPortalFiles \cup {NoPart} :
          upload(u, pob_file, portal_file)

Next ==
    \E u \in Users :
        \/ upload_get(u)
        \/ Upload(u)
        \/ select_columns_get(u)
        \/ \E form \in ColumnForms : select_columns(u, form)
        \/ check_duplicates(u)
        \/ \E form \in DecisionForms : duplicate_decision(u, form)
        \/ download_duplicates(u)
        \/ user_inputs_get(u)
        \/ \E form \in FlowInputForms : user_inputs(u, form)
        \/ generate(u)
        \/ download(u)

Spec == Init /\ [][Next]_vars

\* ------------------------------------------------------------------------
\* The pipeline on varied rosters: one upload, then the steps that compute
\* ------------------------------------------------------------------------

UploadOnce(u) ==
    /\ ~has(session[u], "job_id")
    /\ \E pob_file \in PobFiles, portal_file \in PortalFiles :
          upload(u, pob_file, portal_file)

NextData ==
    \E u \in Users :
        \/ UploadOnce(u)
        \/ select_columns(u, ValidColumns)
        \/ check_duplicates(u)
        \/ \E form \in InputForms : user_inputs(u, form)
        \/ generate(u)

SpecData == Init /\ [][NextData]_vars


\* ------------------------------------------------------------------------
\* clean_ned_column on its own: tables as read from a workbook (labels
\* 0, 1, 2, ...), cleaned once and then once more
\* ------------------------------------------------------------------------

ApprovedCell == StrV(<<"A", "p", "p", "r", "o", "v", "e", "d">>)

CleanFeet == { <<>>, <<TotalCell, StrV(<<>>), ApprovedCell>> }

\* n ordinary rows "F1" .. "Fn", of which rows p and q hold a and b instead
body(n, p, a, q, b) ==
    [i \in 1..n |-> IF i = q THEN b ELSE IF i = p THEN a ELSE filler(n)[i]]

frame_of(ned_values) ==
    [columns |-> <<"NED", "Name">>,
     index |-> [i \in 1..Len(ned_values) |-> i - 1],
     data |-> [i \in 1..Len(ned_values) |->
                 <<ned_values[i], StrV(<<"n">> \o int_to_text(i))>>]]

\* short tables and tables around the length of the footer zone, with two
\* rows of any kind (a at p, then b at q) and an optional three-line footer
CleanFrames ==
    { frame_of(body(n, pq[1], a, pq[2], b) \o foot) :
        n \in {k \in 0..MaxBody : k <= 2 \/ k >= MaxBody - 4},
        pq \in {x \in (1..MaxBody) \X (1..MaxBody) : x[1] <= x[2]},
        a \in {TotalCell, NaN, StrV(<<"\t", "N", "/", "a">>)},
        b \in {TotalCell, StrV(<<" ", "P", "1", "\n">>), IntV(7),
               StrV(<<"T", "o", "t", "a", "l", "U+0663">>)},
        foot \in CleanFeet }

InitClean ==
    /\ session = [u \in Users |-> EmptySession]
    /\ files = [x \in {} |-> 0]
    /\ next_job = 1
    /\ last = request("none", "none", render_template("none"), NoLocals)
    /\ hist = [u \in Users |-> [warned |-> FALSE, proceed |-> FALSE]]
    /\ \E df \in CleanFrames : pure = [pc |-> "raw", df |-> df, col |-> "NED"]

clean_once ==
    /\ pure.pc = "raw"
    /\ pure' = [pc |-> "cleaned", df |-> pure.df, col |-> pure.col,
                once |-> clean_ned_column(pure.df, pure.col)]
    /\ UNCHANGED <<session, files, next_job, last, hist>>

clean_twice ==
    /\ pure.pc = "cleaned"
    /\ pure' = [pc |-> "recleaned", df |-> pure.df, col |-> pure.col,
                once |-> pure.once,
                twice |-> clean_ned_column(pure.once, pure.col)]
    /\ UNCHANGED <<session, files, next_job, last, hist>>

NextClean == clean_once \/ clean_twice

SpecClean == InitClean /\ [][NextClean]_vars


\* ------------------------------------------------------------------------
\* Properties of clean_ned_column (SpecClean)
\* ------------------------------------------------------------------------

EmptyLikeTexts ==
    { <<>>, <<"n", "a", "n">>, <<"n", "o", "n", "e">>, <<"n", "u", "l", "l">>,
      <<"n", "a">>, <<"n", "/", "a">> }

\* the identifier of row i of df as trimmed text
IdText(df, i) == strip(astype_str(df.data[i][1]))

EmptyLike(t) == lower(t) \in EmptyLikeTexts

DigitFree(t) == \A i \in 1..Len(t) : t[i] \notin Digits

\* row i of n rows lies in the last 15 rows
InFooterZone(i, n) == i > n - 15

Discarded(df, i) ==
    \/ EmptyLike(IdText(df, i))
    \/ DigitFree(IdText(df, i)) /\ InFooterZone(i, Len(df.data))

\* out holds exactly the rows i of df with Keep(i), in order, the identifier
\* replaced by its trimmed text
HoldsExactly(out, df, Keep(_)) ==
    /\ out.columns = df.columns
    /\ Len(out.index) = Len(out.data)
    /\ {out.index[q] + 1 : q \in 1..Len(out.index)} = {i \in 1..Len(df.data) : Keep(i)}
    /\ \A q \in 1..Len(out.index) :
          /\ q > 1 => out.index[q - 1] < out.index[q]
          /\ out.data[q] = [df.data[out.index[q] + 1] EXCEPT ![1] = StrV(IdText(df, out.index[q] + 1))]

Cleaned == pure.pc \in {"cleaned", "recleaned"}

\* C2: clean_ned_column returns exactly the rows, in original order, whose
\* trimmed identifier text is not empty-like and is not both digit-free and
\* among the last 15 rows; the kept rows hold the trimmed text.
C2_CleanKeepsExactly ==
    Cleaned =>
        LET Keep(i) == ~Discarded(pure.df, i)
        IN  HoldsExactly(pure.once, pure.df, Keep)

\* a table longer than the footer zone was cleaned: a digit-free row before
\* the zone was kept, a digit-free row inside it was dropped, a row with a
\* digit inside it was kept and an empty-like row was dropped
C2_Witness ==
    /\ pure.pc = "cleaned"
    /\ LET n == Len(pure.df.data)
           kept == {pure.once.index[q] + 1 : q \in 1..Len(pure.once.index)}
       IN  /\ n > 15
           /\ \E i \in kept : DigitFree(IdText(pure.df, i)) /\ ~InFooterZone(i, n)
           /\ \E i \in (1..n) \ kept :
                 DigitFree(IdText(pure.df, i)) /\ ~EmptyLike(IdText(pure.df, i))
           /\ \E i \in kept : InFooterZone(i, n)
           /\ \E i \in (1..n) \ kept : EmptyLike(IdText(pure.df, i))

KeptAgain(k) ==
    \E q \in 1..Len(pure.twice.data) : pure.twice.index[q] = pure.once.index[k]

TwentyWithFooter(df) ==
    /\ Len(df.data) = 20
    /\ df.data[18][1] = TotalCell
    /\ df.data[19][1] = StrV(<<>>)
    /\ df.data[20][1] = ApprovedCell

\* C5 as stated: of such a table the last 3 rows go and each of the first 17
\* rows goes if and only if it is empty-like.
C5_FirstSeventeenEmptyLikeOnly ==
    (Cleaned /\ TwentyWithFooter(pure.df)) =>
        LET Keep(i) == i <= 17 /\ ~EmptyLike(IdText(pure.df, i))
        IN  HoldsExactly(pure.once, pure.df, Keep)

\* C5 amended: the last 3 rows go, each of the first 5 rows goes if and only
\* if it is empty-like, and each of rows 6 to 17 (inside the last 15) goes
\* if and only if it is empty-like or digit-free.
C5_FirstFiveEmptyLikeOnly ==
    (Cleaned /\ TwentyWithFooter(pure.df)) =>
        LET Keep(i) ==
                /\ i <= 17
                /\ ~EmptyLike(IdText(pure.df, i))
                /\ i > 5 => ~DigitFree(IdText(pure.df, i))
        IN  HoldsExactly(pure.once, pure.df, Keep)

\* such a table was cleaned with a digit-free row among the first 5 (kept)
\* and one among rows 6 to 17 (dropped)
C5_Witness ==
    /\ pure.pc = "cleaned"
    /\ TwentyWithFooter(pure.df)
    /\ \E i \in 1..5 : pure.df.data[i][1] = TotalCell
    /\ \E i \in 6..17 : pure.df.data[i][1] = TotalCell
    /\ Len(pure.once.data) = 16


\* ------------------------------------------------------------------------
\* Properties of the wizard
\* ------------------------------------------------------------------------

\* the texts of the identifier column (the first column) of a stored table
IdTexts(file) == [i \in 1..Len(file.cells) |-> file.cells[i][1].s]

RepeatsAnId(file) ==
    \E i, k \in 1..Len(file.cells) : i # k /\ IdTexts(file)[i] = IdTexts(file)[k]

\* the stored table `name` of the job of the last request's user
Stored(name) == files[<<session[last.user]["job_id"], name>>]

\* the last request was a generate that computed the missing sets
Reconciled == last.handler = "generate" /\ has(last.locals, "missing_in_portal")

\* the last request was a generate that completed
Generated == last.handler = "generate" /\ last.response.kind = "render"

\* C1: when a cleaned table repeats an identifier, generate computes the
\* reconciliation only after check_duplicates has shown the warning and the
\* user has then submitted a decision to proceed.
C1_DuplicateGate ==
    (Reconciled /\ (RepeatsAnId(Stored("pob_clean")) \/ RepeatsAnId(Stored("portal_clean"))))
        => (hist[last.user].warned /\ hist[last.user].proceed)

\* the rows i of table a whose identifier text is the text of no row of b
MissingFrom(a, b) ==
    {i \in 1..Len(a.cells) :
        \A k \in 1..Len(b.cells) : IdTexts(a)[i] # IdTexts(b)[k]}

RowsOf(df) == {df.index[q] + 1 : q \in 1..Len(df.index)}

\* C3: generate reports as missing exactly the rows of each cleaned table
\* whose identifier is, as a string, equal to no identifier of the other
\* cleaned table, and the counts are the sizes of these two sets.
C3_ExactStringMembership ==
    Reconciled =>
        /\ RowsOf(last.locals.missing_in_portal)
              = MissingFrom(Stored("pob_clean"), Stored("portal_clean"))
        /\ RowsOf(last.locals.missing_in_pob)
              = MissingFrom(Stored("portal_clean"), Stored("pob_clean"))
        /\ last.locals.manifest_count
              = Cardinality(MissingFrom(Stored("pob_clean"), Stored("portal_clean")))
        /\ last.locals.return_count
              = Cardinality(MissingFrom(Stored("portal_clean"), Stored("pob_clean")))

\* the last request was a duplicate check that reached the masks
Checked == last.handler = "check_duplicates" /\ has(last.locals, "pob_dup_mask")

OccursTwice(file, i) ==
    \E k \in 1..Len(file.cells) : k # i /\ IdTexts(file)[k] = IdTexts(file)[i]

\* C6: the duplicate check flags a row if and only if the row's identifier
\* occurs at least twice in the cleaned column, and a table's aggregate flag
\* is true if and only if one of its rows is flagged.
C6_FlagsExactlyRepeated ==
    Checked =>
        /\ \A i \in 1..Len(last.locals.pob_dup_mask) :
              last.locals.pob_dup_mask[i] <=> OccursTwice(Stored("pob_clean"), i)
        /\ \A i \in 1..Len(last.locals.portal_dup_mask) :
              last.locals.portal_dup_mask[i] <=> OccursTwice(Stored("portal_clean"), i)
        /\ last.locals.pob_dup <=> \E i \in 1..Len(last.locals.pob_dup_mask) :
                                      last.locals.pob_dup_mask[i]
        /\ last.locals.portal_dup <=> \E i \in 1..Len(last.locals.portal_dup_mask) :
                                         last.locals.portal_dup_mask[i]

\* C7: no identifier of a row reported missing occurs in the other cleaned
\* table, and the rows of a table are partitioned into the missing rows and
\* the rows whose identifier occurs in the other table.
C7_DisjointAndPartition ==
    Reconciled =>
        LET a == Stored("pob_clean")
            b == Stored("portal_clean")
            InOther(x, y) == {i \in 1..Len(x.cells) : i \notin MissingFrom(x, y)}
        IN  /\ \A i \in RowsOf(last.locals.missing_in_portal) : i \in MissingFrom(a, b)
            /\ \A i \in RowsOf(last.locals.missing_in_pob) : i \in MissingFrom(b, a)
            /\ Len(last.locals.missing_in_portal.data) + Cardinality(InOther(a, b))
                  = Len(a.cells)
            /\ Len(last.locals.missing_in_pob.data) + Cardinality(InOther(b, a))
                  = Len(b.cells)

\* C8: after a generate that completes, RFM and Manifest have one row per
\* missing POB row, Manifest has the index of RFM, Return Manifest has one
\* row per missing Portal row, and the reported counts are these numbers.
C8_ReportRowCounts ==
    Generated =>
        LET l == last.locals
        IN  /\ Len(l.rfm.data) = Len(l.missing_in_portal.data)
            /\ Len(l.manifest.data) = Len(l.missing_in_portal.data)
            /\ l.manifest.index = l.rfm.index
            /\ l.rfm.index = l.missing_in_portal.index
            /\ Len(l.return_manifest.data) = Len(l.missing_in_pob.data)
            /\ l.return_manifest.index = l.missing_in_pob.index
            /\ Len(Stored("rfm_final").cells) = Len(l.missing_in_portal.data)
            /\ Len(Stored("manifest_final").cells) = Len(l.missing_in_portal.data)
            /\ Len(Stored("return_manifest_final").cells) = Len(l.missing_in_pob.data)
            /\ l.manifest_count = Len(l.missing_in_portal.data)
            /\ l.return_count = Len(l.missing_in_pob.data)
            /\ session[last.user]["manifest_count"] = l.manifest_count
            /\ session[last.user]["return_count"] = l.return_count

\* a generate completed with a repeated identifier among the missing POB
\* rows and no missing Portal row
C8_Witness ==
    /\ Generated
    /\ last.locals.manifest_count = 2
    /\ last.locals.missing_in_portal.data[1][1] = last.locals.missing_in_portal.data[2][1]
    /\ last.locals.return_count = 0

Submitted(field) == StrV(session[last.user]["inputs"][field])

\* C9: row i of RFM holds identifier and name of the i-th missing POB row,
\* row j of Return Manifest those of the j-th missing Portal row, and every
\* uniform field holds in every row the text the user submitted.
C9_RowsAndUniformFields ==
    Generated =>
        LET l == last.locals
        IN  /\ \A i \in 1..Len(l.rfm.data) :
                  /\ l.rfm.data[i][2] = l.missing_in_portal.data[i][1]
                  /\ l.rfm.data[i][5] = l.missing_in_portal.data[i][2]
                  /\ l.rfm.data[i][1] = Submitted("rfm_category")
                  /\ l.rfm.data[i][3] = Submitted("vendor_code")
                  /\ l.rfm.data[i][4] = Submitted("vendor_name")
                  /\ l.rfm.data[i][6] = Submitted("gender")
                  /\ l.rfm.data[i][8] = Submitted("rfm_origin")
                  /\ l.rfm.data[i][9] = Submitted("rfm_destination")
                  /\ l.rfm.data[i][11] = Submitted("charge")
                  /\ l.manifest.data[i][1] = Submitted("passenger_weight")
                  /\ l.manifest.data[i][2] = Submitted("baggage_weight")
                  /\ l.manifest.data[i][6] = Submitted("time_reported")
            /\ \A j \in 1..Len(l.return_manifest.data) :
                  /\ l.return_manifest.data[j][2] = l.missing_in_pob.data[j][1]
                  /\ l.return_manifest.data[j][4] = l.missing_in_pob.data[j][2]
                  /\ l.return_manifest.data[j][1] = Submitted("return_category")
                  /\ l.return_manifest.data[j][3] = Submitted("supplier")
                  /\ l.return_manifest.data[j][5] = Submitted("gender")
                  /\ l.return_manifest.data[j][8] = Submitted("charge")
                  /\ l.return_manifest.data[j][9] = Submitted("passenger_weight")
                  /\ l.return_manifest.data[j][10] = Submitted("baggage_weight")
                  /\ l.return_manifest.data[j][11] = Submitted("return_origin")
                  /\ l.return_manifest.data[j][12] = Submitted("return_destination")

\* a generate completed with rows in both reports, the submitted texts not
\* numerals
C9_Witness ==
    /\ Generated
    /\ last.locals.manifest_count >= 2
    /\ last.locals.return_count >= 2
    /\ session[last.user]["inputs"] = DistinctInputs

\* the row of the raw table a cleaned row comes from (names are per row)
Origin(raw, row) == CHOOSE i \in 1..Len(raw.cells) : raw.cells[i][2] = row[2]

CleanedFileOk(clean, raw) ==
    \A q \in 1..Len(clean.cells) :
        LET id == clean.cells[q][1]
        IN  /\ id.k = "str"
            /\ id.s # <<>>
            /\ id.s[1] \notin Whitespace /\ id.s[Len(id.s)] \notin Whitespace
            /\ ~EmptyLike(id.s)
            /\ ~(DigitFree(id.s) /\ InFooterZone(Origin(raw, clean.cells[q]), Len(raw.cells)))

\* C10: in every state every row of every stored cleaned table has an
\* identifier that is a non-empty text without leading or trailing space,
\* not empty-like, and no row with a digit-free identifier comes from the
\* last 15 rows of its raw table.
C10_CleanedIdentifiers ==
    \A key \in DOMAIN files :
        /\ key[2] = "pob_clean" => CleanedFileOk(files[key], files[<<key[1], "pob_raw">>])
        /\ key[2] = "portal_clean" => CleanedFileOk(files[key], files[<<key[1], "portal_raw">>])

\* ------------------------------------------------------------------------
\* The user inputs: forms from which up to MaxAbsent fields are absent
\* ------------------------------------------------------------------------

\* the complete form without the fields of absent
without(absent) == [f \in FieldSet \ absent |-> DistinctInputs[f]]

\* every field filled, the supplier with a character no cell may hold
IllegalInputs == [DistinctInputs EXCEPT !["supplier"] = <<"s", "U+000B">>]

FieldForms ==
    { without(absent) : absent \in {S \in SUBSET FieldSet : Cardinality(S) <= MaxAbsent} }
    \cup {IllegalInputs}

\* a Portal roster with a text no cell may hold in its second row, and one
\* whose second header cell is written as a formula
IllegalPortal == workbook_of(<<P1, StrV(<<"P", "U+000B">>), StrV(<<"P", "3">>)>>)

FormulaHeadPortal == [workbook_of(<<P1>>) EXCEPT !.columns = <<"NED", "=Name">>]

FieldsPortalFiles == FlowPortalFiles \cup {IllegalPortal, FormulaHeadPortal}

\* the column forms: complete, and without the last key
FieldsColumnForms ==
    { ValidColumns,
      [k \in {"pob_ned", "pob_name", "portal_ned"} |-> ValidColumns[k]] }

\* one upload, whether it succeeds or not
UploadFields(u) ==
    /\ next_job = 1
    /\ \E pob_file \in FlowPobFiles, portal_file \in FieldsPortalFiles :
          upload(u, pob_file, portal_file)

NextFields ==
    \E u \in Users :
        \/ UploadFields(u)
        \/ \E form \in FieldsColumnForms : select_columns(u, form)
        \/ \E form \in FieldForms : user_inputs(u, form)
        \/ generate(u)

SpecFields == Init /\ [][NextFields]_vars

\* ------------------------------------------------------------------------
\* Two sessions at once: each uploads its own rosters, requests interleave
\* ------------------------------------------------------------------------

TwoUsers == {"u1", "u2"}

\* identifiers "<letter>1", "<letter>2", ...
ids_of(letter, numbers) ==
    [i \in 1..Len(numbers) |-> StrV(<<letter>> \o int_to_text(numbers[i]))]

\* the rosters of each user; both have a repeated identifier
OwnPob(u) ==
    IF u = "u1" THEN workbook_of(ids_of("A", <<1, 1, 2>>))
    ELSE workbook_of(ids_of("B", <<1, 2>>))

OwnPortal(u) ==
    IF u = "u1" THEN workbook_of(ids_of("A", <<2, 3>>))
    ELSE workbook_of(ids_of("B", <<2, 2, 3>>) \o <<TotalCell>>)

InitTwo ==
    /\ session = [u \in TwoUsers |-> EmptySession]
    /\ files = [x \in {} |-> 0]
    /\ next_job = 1
    /\ last = request("none", "none", render_template("none"), NoLocals)
    /\ hist = [u \in TwoUsers |-> [warned |-> FALSE, proceed |-> FALSE]]
    /\ pure = IdlePure

UploadOwn(u) ==
    /\ ~has(session[u], "pob_cols")
    /\ upload(u, OwnPob(u), OwnPortal(u))

NextTwo ==
    \E u \in TwoUsers :
        \/ UploadOwn(u)
        \/ select_columns(u, ValidColumns)
        \/ check_duplicates(u)
        \/ download_duplicates(u)
        \/ user_inputs(u, DistinctInputs)
        \/ generate(u)
        \/ download(u)

SpecTwo == InitTwo /\ [][NextTwo]_vars

\* ------------------------------------------------------------------------
\* Runs one after another: rosters with two candidate identifier columns,
\* uploaded again up to MaxJobs times, the columns selected again at will
\* ------------------------------------------------------------------------

\* a roster with the columns Pass and Card; a number 0 is a blank cell
cell_or_blank(letter, m) == IF m = 0 THEN NaN ELSE StrV(<<letter>> \o int_to_text(m))

book(pass, card, rows) ==
    [columns |-> <<"Pass", "Card">>,
     cells |-> [i \in 1..Len(rows) |->
                  <<cell_or_blank(pass, rows[i][1]), cell_or_blank(card, rows[i][2])>>]]

\* the rosters of the upload that gets job id k: every upload differs from
\* the one before it in every identifier
RunUpload(k) ==
    LET pass == IF k % 2 = 1 THEN "P" ELSE "Q"
        card == IF k % 2 = 1 THEN "K" ELSE "L"
    IN  [pob |-> book(pass, card, <<<<1, 0>>, <<0, 2>>, <<3, 3>>>>),
         portal |-> book(pass, card, <<<<3, 3>>, <<3, 4>>>>)]

RunColumns ==
    { [pob_ned |-> "Pass", pob_name |-> "Card", portal_ned |-> "Pass", portal_name |-> "Card"],
      [pob_ned |-> "Card", pob_name |-> "Pass", portal_ned |-> "Card", portal_name |-> "Pass"],
      [pob_ned |-> "Other", pob_name |-> "Pass", portal_ned |-> "Card", portal_name |-> "Pass"] }

\* an upload of the next rosters, or of a POB part that is no workbook
UploadAgain(u) ==
    /\ next_job <= MaxJobs
    /\ \E pob_file \in {RunUpload(next_job).pob, NotAWorkbook} :
          upload(u, pob_file, RunUpload(next_job).portal)

NextRun ==
    \E u \in Users :
        \/ UploadAgain(u)
        \/ \E form \in RunColumns : select_columns(u, form)
        \/ check_duplicates(u)
        \/ download_duplicates(u)
        \/ user_inputs(u, DistinctInputs)
        \/ generate(u)
        \/ download(u)

SpecRun == Init /\ [][NextRun]_vars

\* ------------------------------------------------------------------------
\* Properties of the steps and their order
\* ------------------------------------------------------------------------

\* name is one of the column names cols
Among(name, cols) == \E j \in 1..Len(cols) : cols[j] = name

\* sess holds a whole column selection
SelectionMade(sess) ==
    \A i \in 1..Len(selection_keys) : has(sess, selection_keys[i])

\* the four columns selected in sess are columns of the uploaded tables
SelectionExists(sess) ==
    /\ Among(sess["pob_ned"], sess["pob_cols"])
    /\ Among(sess["pob_name"], sess["pob_cols"])
    /\ Among(sess["portal_ned"], sess["portal_cols"])
    /\ Among(sess["portal_name"], sess["portal_cols"])

\* the last request was answered by sending the user on to step `to`
ForwardedTo(to) == last.response = redirect(to)

\* C11: when one of the four selected columns is not a column of its table,
\* the column selection does not complete (it does not forward to the
\* duplicate check), and with such a selection in the session neither the
\* duplicate check nor the user inputs nor generate completes.
C11_FailFast ==
    (/\ last.user \in DOMAIN session
     /\ SelectionMade(session[last.user])
     /\ ~SelectionExists(session[last.user])) =>
        /\ last.handler = "select_columns" => ~ForwardedTo("check_duplicates")
        /\ last.handler = "check_duplicates" =>
              (~ForwardedTo("user_inputs") /\ last.response.kind # "render")
        /\ last.handler = "user_inputs" =>
              (~ForwardedTo("generate") /\ last.response.kind # "render")
        /\ last.handler = "generate" => last.response.kind # "render"

\* the submitted inputs of the user of the request that ends the step
GivenFields == DOMAIN session[last'.user]["inputs"]

\* C12: a generate that finds any of the 14 fields absent from the submitted
\* inputs ends in an error and writes no file: no report table is stored or
\* replaced, so no blank or default value takes the field's place.
C12_AllFieldsRequired ==
    [][ (/\ last'.handler = "generate"
         /\ has(session[last'.user], "inputs")
         /\ ~(FieldSet \subseteq GivenFields))
            => (last'.response.kind = "error" /\ files' = files) ]_vars

\* generate ended in a KeyError on a form that lacks only the last field
\* used, while the reports of an earlier complete form are stored
C12_Witness ==
    /\ last.handler = "generate"
    /\ last.response = server_error("KeyError")
    /\ DOMAIN session[last.user]["inputs"] = FieldSet \ {"return_destination"}
    /\ file_exists(files, session[last.user], "return_manifest_final")

\* the last request was a column selection, duplicate check or generate on
\* stored cleaned tables of which one has no row left, by a user who (for
\* generate) submitted all fields
RanOnEmptyCleaned ==
    /\ last.handler \in {"select_columns", "check_duplicates", "generate"}
    /\ has(session[last.user], "job_id")
    /\ file_exists(files, session[last.user], "pob_clean")
    /\ file_exists(files, session[last.user], "portal_clean")
    /\ Stored("pob_clean").cells = <<>> \/ Stored("portal_clean").cells = <<>>
    /\ last.handler = "generate" =>
          (has(session[last.user], "inputs")
              /\ FieldSet \subseteq DOMAIN session[last.user]["inputs"])

\* C13 as stated: with a cleaned table without rows no step ends in an
\* error, both missing sets are empty and both reported counts are 0.
C13_ZeroRows ==
    RanOnEmptyCleaned =>
        /\ last.response.kind # "error"
        /\ Generated =>
              /\ last.locals.missing_in_portal.data = <<>>
              /\ last.locals.missing_in_pob.data = <<>>
              /\ session[last.user]["manifest_count"] = 0
              /\ session[last.user]["return_count"] = 0

\* C13 amended: with a cleaned table without rows no step ends in an error;
\* no row of the empty table is reported missing, every row of the other
\* cleaned table is, and the counts generate reports are these numbers.
C13_EmptySideOnly ==
    RanOnEmptyCleaned =>
        /\ last.response.kind # "error"
        /\ Generated =>
              /\ Stored("pob_clean").cells = <<>> =>
                    /\ last.locals.missing_in_portal.data = <<>>
                    /\ RowsOf(last.locals.missing_in_pob)
                          = 1..Len(Stored("portal_clean").cells)
              /\ Stored("portal_clean").cells = <<>> =>
                    /\ last.locals.missing_in_pob.data = <<>>
                    /\ RowsOf(last.locals.missing_in_portal)
                          = 1..Len(Stored("pob_clean").cells)
              /\ last.locals.manifest_count = Len(last.locals.missing_in_portal.data)
              /\ last.locals.return_count = Len(last.locals.missing_in_pob.data)
              /\ session[last.user]["manifest_count"] = last.locals.manifest_count
              /\ session[last.user]["return_count"] = last.locals.return_count

\* generate completed after cleaning removed every row of a POB table that
\* had rows, and reported every row of the Portal table as missing
C13_Witness ==
    /\ Generated
    /\ Stored("pob_raw").cells # <<>>
    /\ Stored("pob_clean").cells = <<>>
    /\ last.locals.manifest_count = 0
    /\ last.locals.return_count >= 2

\* the names of cols are pairwise different
DistinctNames(cols) == \A i, j \in 1..Len(cols) : cols[i] = cols[j] => i = j

\* the last request was a download that returned the workbook
Downloaded == last.handler = "download" /\ last.response.kind = "send_file"

\* C14: the three report tables are built with their fixed column
\* sequences, the spacer columns distinct, and the tables read back from
\* their files, as well as the sheets download returns, have the same
\* column names in the same order.
C14_ColumnsRoundTrip ==
    /\ Generated =>
          /\ last.locals.rfm.columns = rfm_columns
          /\ last.locals.manifest.columns = manifest_columns
          /\ last.locals.return_manifest.columns = return_manifest_columns
          /\ DistinctNames(last.locals.rfm.columns)
          /\ DistinctNames(last.locals.manifest.columns)
          /\ DistinctNames(last.locals.return_manifest.columns)
          /\ load_df(files, session[last.user], "rfm_final").columns
                = last.locals.rfm.columns
          /\ load_df(files, session[last.user], "manifest_final").columns
                = last.locals.manifest.columns
          /\ load_df(files, session[last.user], "return_manifest_final").columns
                = last.locals.return_manifest.columns
    /\ Downloaded =>
          /\ last.locals.RFM.columns = rfm_columns
          /\ last.locals.Manifest.columns = manifest_columns
          /\ last.locals.ReturnManifest.columns = return_manifest_columns

\* what a user who runs alone gets from the own rosters: the stored files
AloneRaw(roster) == to_excel(read_excel(roster))

AloneClean(roster) == to_excel(clean_ned_column(read_excel(AloneRaw(roster)), "NED"))

AloneMissing(roster, other) ==
    missing_rows(read_excel(AloneClean(roster)), "NED", read_excel(AloneClean(other)), "NED")

AloneDuplicates(u) ==
    LET pob == read_excel(AloneClean(OwnPob(u)))
        portal == read_excel(AloneClean(OwnPortal(u)))
    IN  [POB |-> to_excel(pob),
         PORTAL |-> to_excel(portal),
         pob_fill |-> fill_cells(duplicated(column(pob, "NED")), 1),
         portal_fill |-> fill_cells(duplicated(column(portal, "NED")), 1)]

AloneRfm(u) ==
    build_rfm(DistinctInputs, AloneMissing(OwnPob(u), OwnPortal(u)), "NED", "Name")

AloneFile(u, name) ==
    CASE name = "pob_raw" -> AloneRaw(OwnPob(u))
      [] name = "portal_raw" -> AloneRaw(OwnPortal(u))
      [] name = "pob_clean" -> AloneClean(OwnPob(u))
      [] name = "portal_clean" -> AloneClean(OwnPortal(u))
      [] name = "duplicates" -> AloneDuplicates(u)
      [] name = "rfm_final" -> to_excel(AloneRfm(u))
      [] name = "manifest_final" -> to_excel(build_manifest(DistinctInputs, AloneRfm(u)))
      [] name = "return_manifest_final" ->
             to_excel(build_return_manifest(DistinctInputs,
                          AloneMissing(OwnPortal(u), OwnPob(u)), "NED", "Name"))

\* the workbook as download reads and returns it
Returned(file) == to_excel(read_excel(file))

\* every user's job id is the user's own, every stored file of the job is the
\* file the user would have alone, and what the last request read or
\* returned is what its user would have read or been sent alone
AloneResults ==
    /\ \A u, v \in TwoUsers :
          (u # v /\ has(session[u], "job_id") /\ has(session[v], "job_id"))
              => session[u]["job_id"] # session[v]["job_id"]
    /\ \A u \in TwoUsers : \A key \in DOMAIN files :
          (has(session[u], "job_id") /\ key[1] = session[u]["job_id"])
              => files[key] = AloneFile(u, key[2])
    /\ Checked =>
          /\ last.locals.pob = read_excel(AloneClean(OwnPob(last.user)))
          /\ last.locals.portal = read_excel(AloneClean(OwnPortal(last.user)))
    /\ Generated =>
          /\ last.locals.rfm = AloneRfm(last.user)
          /\ last.locals.missing_in_pob
                = AloneMissing(OwnPortal(last.user), OwnPob(last.user))
    /\ Downloaded =>
          /\ last.locals.RFM = Returned(AloneFile(last.user, "rfm_final"))
          /\ last.locals.Manifest = Returned(AloneFile(last.user, "manifest_final"))
          /\ last.locals.ReturnManifest
                = Returned(AloneFile(last.user, "return_manifest_final"))
    /\ (last.handler = "download_duplicates" /\ last.response.kind = "send_file")
          => last.locals.workbook = AloneDuplicates(last.user)

\* C15: with two sessions whose requests interleave in any order, the two
\* job ids differ, every file stored under a session's job is at all times
\* the file that session would have stored running alone (no step of the
\* other session replaces it), and every table a step reads or returns is
\* the one its own session would read or be sent running alone.
C15_Isolation == AloneResults

\* the second session downloaded its reports while duplicate workbook and
\* reports of the first session are stored
C15_Witness ==
    /\ Downloaded
    /\ last.user = "u2"
    /\ has(session["u1"], "job_id")
    /\ <<session["u1"]["job_id"], "duplicates">> \in DOMAIN files
    /\ <<session["u1"]["job_id"], "rfm_final">> \in DOMAIN files
    /\ session["u1"]["job_id"] > session["u2"]["job_id"]

\* the last request was a column selection that completed
Selected == last.handler = "select_columns" /\ ForwardedTo("check_duplicates")

\* the raw tables an upload with job id k stores: its two rosters read and
\* written once, with nothing else in between
RawOf(k) ==
    [pob |-> to_excel(read_excel(RunUpload(k).pob)),
     portal |-> to_excel(read_excel(RunUpload(k).portal))]

RunRaw == [k \in 1..MaxJobs |-> RawOf(k)]

UploadedRaw(k) == IF k \in DOMAIN RunRaw THEN RunRaw[k] ELSE RawOf(k)

\* C16: every stored raw table is at all times the table that was uploaded
\* for its job, whatever steps have run since, and a column selection that
\* completes stores, for each roster, the cleaning of that raw table,
\* whatever was selected and cleaned before.
C16_RawImmutable ==
    /\ \A key \in DOMAIN files :
          /\ key[2] = "pob_raw" => files[key] = UploadedRaw(key[1]).pob
          /\ key[2] = "portal_raw" => files[key] = UploadedRaw(key[1]).portal
    /\ Selected =>
          LET sess == session[last.user]
          IN  /\ Stored("pob_clean")
                    = to_excel(clean_ned_column(read_excel(Stored("pob_raw")), sess["pob_ned"]))
              /\ Stored("portal_clean")
                    = to_excel(clean_ned_column(read_excel(Stored("portal_raw")),
                                                sess["portal_ned"]))

\* the column Card was selected and cleaned (a row dropped) after reports
\* had been generated under the selection of Pass
C16_Witness ==
    /\ Selected
    /\ session[last.user]["pob_ned"] = "Card"
    /\ Len(Stored("pob_clean").cells) < Len(Stored("pob_raw").cells)
    /\ file_exists(files, session[last.user], "rfm_final")
    /\ \E i \in 1..Len(Stored("rfm_final").cells) :
          Stored("rfm_final").cells[i][2].s[1] \in {"P", "Q"}

\* C17: a duplicate check that reaches its decision forwards to the user
\* inputs if and only if neither cleaned table repeats an identifier;
\* otherwise it stores the duplicate workbook of the job, records its path
\* and shows the warning. A decision "reupload" leads to the upload step,
\* any other decision to the user inputs.
C17_ForwardIffNoDuplicates ==
    /\ Checked =>
          LET repeated == \/ RepeatsAnId(Stored("pob_clean"))
                          \/ RepeatsAnId(Stored("portal_clean"))
          IN  /\ ForwardedTo("user_inputs") <=> ~repeated
              /\ repeated =>
                    /\ last.response = render_template("duplicate_warning.html")
                    /\ file_exists(files, session[last.user], "duplicates")
                    /\ has(session[last.user], "duplicate_path")
    /\ (last.handler = "duplicate_decision" /\ last.response.kind # "error") =>
          IF last.locals.decision = "reupload"
          THEN ForwardedTo("upload")
          ELSE ForwardedTo("user_inputs")

\* the texts in the cells of a stored workbook, and in a table
CellTexts(file) ==
    { file.cells[i][j].s :
        i \in 1..Len(file.cells), j \in 1..Len(file.columns) }

FrameTexts(df) ==
    { df.data[i][j].s : i \in 1..Len(df.data), j \in 1..Len(df.columns) }

\* the texts a run of job may hold: those of the rosters uploaded for it,
\* the submitted inputs and the blank
TextsOfRun(job) ==
    CellTexts(RunUpload(job).pob) \cup CellTexts(RunUpload(job).portal)
        \cup {DistinctInputs[f] : f \in FieldSet} \cup {<<>>}

\* the last request was an upload POST; one that completed
UploadPosted ==
    last.handler = "upload" /\ last.response # render_template("upload.html")

UploadCompleted ==
    last.handler = "upload" /\ last.response = redirect("select_columns")

\* the session keys that a run adds after its upload
RunKeys ==
    {"pob_ned", "pob_name", "portal_ned", "portal_name", "inputs",
     "manifest_count", "return_count", "duplicate_path"}

\* C18 as stated: after every upload POST the session holds no column
\* selection, user inputs, counts or duplicate-workbook path and has a job
\* id under which nothing but the raw tables is stored.
C18_AnyUploadFresh ==
    UploadPosted =>
        LET sess == session[last.user]
        IN  /\ DOMAIN sess \cap RunKeys = {}
            /\ has(sess, "job_id")
            /\ \A key \in DOMAIN files :
                  key[1] = sess["job_id"] => key[2] \in {"pob_raw", "portal_raw"}

\* right after an upload POST that completed the session holds only a job
\* id that no stored file had before and the column names of the two
\* uploaded rosters, and the only files of that job are the two raw tables
\* just uploaded; at all times every file of the session's job, every
\* table a step reads and every workbook a step returns holds data of the
\* latest completed upload only
FreshAfterUpload ==
    (last.user \in DOMAIN session /\ has(session[last.user], "job_id")) =>
        LET sess == session[last.user]
            job == sess["job_id"]
            fresh == TextsOfRun(job)
        IN  /\ UploadCompleted =>
                  /\ DOMAIN sess = {"job_id", "pob_cols", "portal_cols"}
                  /\ {key \in DOMAIN files : key[1] >= job}
                        = {<<job, "pob_raw">>, <<job, "portal_raw">>}
                  /\ Stored("pob_raw") = to_excel(read_excel(RunUpload(job).pob))
                  /\ Stored("portal_raw") = to_excel(read_excel(RunUpload(job).portal))
            /\ \A key \in DOMAIN files :
                  key[1] = job =>
                      IF key[2] = "duplicates"
                      THEN CellTexts(files[key].POB) \cup CellTexts(files[key].PORTAL)
                              \subseteq fresh
                      ELSE CellTexts(files[key]) \subseteq fresh
            /\ Checked =>
                  FrameTexts(last.locals.pob) \cup FrameTexts(last.locals.portal)
                      \subseteq fresh
            /\ Generated =>
                  FrameTexts(last.locals.rfm) \cup FrameTexts(last.locals.return_manifest)
                      \subseteq fresh
            /\ Downloaded =>
                  CellTexts(last.locals.RFM) \cup CellTexts(last.locals.ReturnManifest)
                      \subseteq fresh
            /\ (last.handler = "download_duplicates" /\ last.response.kind = "send_file") =>
                  CellTexts(last.locals.workbook.POB)
                      \cup CellTexts(last.locals.workbook.PORTAL) \subseteq fresh

\* a step that is an upload POST failing on its parts (one is missing or
\* is no workbook) stores no file and leaves every session as it was or
\* with a new job id and nothing else
FailedUploadKeepsOrClears ==
    (/\ last'.handler = "upload"
     /\ last'.response \in {server_error("BadRequestKeyError"), server_error("ValueError")}) =>
        /\ files' = files
        /\ \A u \in DOMAIN session :
              \/ session'[u] = session[u]
              \/ /\ DOMAIN session'[u] = {"job_id"}
                 /\ session'[u]["job_id"] = next_job
                 /\ \A key \in DOMAIN files : key[1] < next_job

\* C18: an upload POST that completes starts a fresh run, and one that
\* fails on its parts changes no file and either leaves the session
\* untouched or leaves it with a new job id only; no step ever reads or
\* returns data from before the latest completed upload of its session.
C18_FreshRun == []FreshAfterUpload /\ [][FailedUploadKeepsOrClears]_vars

\* rosters were uploaded again after a run that had stored a duplicate
\* workbook and its reports
C18_Witness ==
    /\ UploadCompleted
    /\ session[last.user]["job_id"] = 2
    /\ <<1, "duplicates">> \in DOMAIN files
    /\ <<1, "rfm_final">> \in DOMAIN files
    /\ files[<<1, "rfm_final">>].cells # <<>>

\* the three sheets generate would produce now for session sess: from the
\* selection, the cleaned tables and the inputs the session holds
CurrentReports(sess) ==
    LET pob == load_df(files, sess, "pob_clean")
        portal == load_df(files, sess, "portal_clean")
        missing_in_portal == missing_rows(pob, sess["pob_ned"], portal, sess["portal_ned"])
        missing_in_pob == missing_rows(portal, sess["portal_ned"], pob, sess["pob_ned"])
        rfm == build_rfm(sess["inputs"], missing_in_portal, sess["pob_ned"], sess["pob_name"])
    IN  [RFM |-> Returned(to_excel(rfm)),
         Manifest |-> Returned(to_excel(build_manifest(sess["inputs"], rfm))),
         ReturnManifest |->
             Returned(to_excel(build_return_manifest(sess["inputs"], missing_in_pob,
                                   sess["portal_ned"], sess["portal_name"])))]

\* C19: whenever download returns a workbook, the session holds a column
\* selection and a complete set of inputs, and the three sheets are the
\* reports computed from that selection, the stored cleaned tables and
\* those inputs.
C19_DownloadCurrent ==
    Downloaded =>
        LET sess == session[last.user]
        IN  /\ has(sess, "inputs")
            /\ FieldSet \subseteq DOMAIN sess["inputs"]
            /\ SelectionExists(sess)
            /\ last.locals = CurrentReports(sess)

\* the last request passed the guard of its handler
PassedGuard == ~ForwardedTo("upload")

\* both cleaned tables of the job of session sess are stored
CleanedStored(sess) ==
    /\ has(sess, "job_id")
    /\ file_exists(files, sess, "pob_clean")
    /\ file_exists(files, sess, "portal_clean")

\* C20: a generate that passes its guard finds all four column selections
\* in the session and both cleaned tables of the job stored; a duplicate
\* check or user-inputs request that passes its guard finds both cleaned
\* tables stored; and a request for a step whose earlier steps have not
\* been done (a download without stored reports included) is answered by
\* the redirect to upload.
C20_WizardOrder ==
    LET sess == session[last.user]
    IN  /\ (last.handler = "generate" /\ PassedGuard) =>
              /\ {"pob_ned", "pob_name", "portal_ned", "portal_name"} \subseteq DOMAIN sess
              /\ CleanedStored(sess)
        /\ (last.handler \in {"check_duplicates", "user_inputs"} /\ PassedGuard) =>
              CleanedStored(sess)
        /\ (last.handler = "download" /\ PassedGuard) =>
              /\ CleanedStored(sess)
              /\ file_exists(files, sess, "rfm_final")
        /\ last.handler \in {"check_duplicates", "user_inputs", "generate", "download"} =>
              last.response # server_error("FileNotFoundError")

====
